---- MODULE Spec2Model ----
(***************************************************************************)
(* Model of plexi's audit verification pipeline: the `audit` and           *)
(* `audit_local` commands of plexi_cli (src/plexi_cli/src/cmd.rs) together *)
(* with the parts of plexi_core they call (SignatureResponse::verify,      *)
(* KeyInfo::key_id, Epoch parsing, the client's fetches and the proof      *)
(* oracle).                                                                *)
(*                                                                         *)
(* Strings whose characters the code inspects (hex keys, the namespace     *)
(* root) are sequences of one-character strings; byte strings are          *)
(* sequences of integers 0..255.                                           *)
(***************************************************************************)
EXTENDS Integers, Sequences, FiniteSets, TLC

(***************************************************************************)
(* Bounds of the model.                                                    *)
(***************************************************************************)
\* epochs range over 0..MaxEpoch
MaxEpoch == 2
\* the auditor configuration lists at most MaxKeys keys
MaxKeys == 2
\* ciphersuite codes range over 0..MaxCode, and one large code
MaxCode == 3

(***************************************************************************)
(* Constants of the program and of the libraries it links.                 *)
(***************************************************************************)
\* ed25519_dalek::SIGNATURE_LENGTH
SIGNATURE_LENGTH == 64
\* ed25519_dalek::PUBLIC_KEY_LENGTH
PUBLIC_KEY_LENGTH == 32
\* akd::DIGEST_BYTES, the length of previous_hash / current_hash in AuditBlobName
DIGEST_BYTES == 32

None == [some |-> FALSE]
Some(v) == [some |-> TRUE, val |-> v]

\* Result values of fallible pure functions
Ok(v) == [ok |-> TRUE, val |-> v]
Err(e) == [ok |-> FALSE, err |-> e]

\* n copies of x
Rep(x, n) == [i \in 1..n |-> x]

(***************************************************************************)
(* hex::decode / hex::encode                                               *)
(***************************************************************************)
LowerHex == <<"0", "1", "2", "3", "4", "5", "6", "7", "8", "9", "a", "b", "c", "d", "e", "f">>
UpperHex == <<"0", "1", "2", "3", "4", "5", "6", "7", "8", "9", "A", "B", "C", "D", "E", "F">>

\* value of one hex digit, -1 when the character is not a hex digit
HexVal(c) ==
    IF \E i \in 1..16 : LowerHex[i] = c
    THEN (CHOOSE i \in 1..16 : LowerHex[i] = c) - 1
    ELSE IF \E i \in 1..16 : UpperHex[i] = c
    THEN (CHOOSE i \in 1..16 : UpperHex[i] = c) - 1
    ELSE -1

\* hex::decode: odd length and non-hex characters are errors, both cases accepted
hex_decode(s) ==
    IF Len(s) % 2 # 0 THEN Err("OddLength")
    ELSE IF \E i \in 1..Len(s) : HexVal(s[i]) = -1 THEN Err("InvalidHexCharacter")
    ELSE Ok([i \in 1..(Len(s) \div 2) |-> 16 * HexVal(s[2 * i - 1]) + HexVal(s[2 * i])])

\* hex::encode: two lower-case digits per byte
hex_encode(b) ==
    [i \in 1..(2 * Len(b)) |->
        IF i % 2 = 1 THEN LowerHex[(b[(i + 1) \div 2] \div 16) + 1]
        ELSE LowerHex[(b[i \div 2] % 16) + 1]]

(***************************************************************************)
(* str::split and u64 parsing, as used on the namespace root               *)
(***************************************************************************)
RECURSIVE str_split(_, _)
str_split(s, sep) ==
    IF \E i \in 1..Len(s) : s[i] = sep
    THEN LET i == CHOOSE j \in 1..Len(s) : s[j] = sep /\ \A k \in 1..(j - 1) : s[k] # sep
         IN  <<SubSeq(s, 1, i - 1)>> \o str_split(SubSeq(s, i + 1, Len(s)), sep)
    ELSE <<s>>

Digits == <<"0", "1", "2", "3", "4", "5", "6", "7", "8", "9">>
IsDigit(c) == \E i \in 1..10 : Digits[i] = c
DigitVal(c) == (CHOOSE i \in 1..10 : Digits[i] = c) - 1

RECURSIVE DecValue(_)
DecValue(s) == IF s = <<>> THEN 0 ELSE 10 * DecValue(SubSeq(s, 1, Len(s) - 1)) + DigitVal(s[Len(s)])

\* str::parse::<u64>: an optional leading '+', then one or more decimal
\* digits.  The strings of the model have at most two digits, so the
\* overflow error of the real parser cannot arise.
parse_u64(s) ==
    LET body == IF Len(s) > 0 /\ s[1] = "+" THEN SubSeq(s, 2, Len(s)) ELSE s
    IN  IF body = <<>> THEN Err("Empty")
        ELSE IF \E i \in 1..Len(body) : ~IsDigit(body[i]) THEN Err("InvalidDigit")
        ELSE Ok(DecValue(body))

\* Epoch::from_str
Epoch_from_str(s) ==
    LET r == parse_u64(s)
    IN  IF r.ok THEN Ok(r.val) ELSE Err("BadParameter(epoch)")

\* Display for u64 (the model's epochs are below 100)
RECURSIVE u64_to_string(_)
u64_to_string(n) ==
    IF n < 10 THEN <<Digits[n + 1]>> ELSE u64_to_string(n \div 10) \o <<Digits[(n % 10) + 1]>>

(***************************************************************************)
(* Ciphersuite (src/plexi_core/src/lib.rs)                                 *)
(***************************************************************************)
ProtobufEd25519 == [variant |-> "ProtobufEd25519", code |-> 1]
BincodeEd25519 == [variant |-> "BincodeEd25519", code |-> 2]
Unknown(u) == [variant |-> "Unknown", code |-> u]

\* From<u32> for Ciphersuite knowing the protobuf code only
Ciphersuite_from_u32_protobuf_only(u) ==
    CASE u = 1 -> ProtobufEd25519
      [] OTHER -> Unknown(u)

\* impl From<u32> for Ciphersuite
Ciphersuite_from_u32(u) ==
    CASE u = 1 -> ProtobufEd25519
      [] u = 2 -> BincodeEd25519
      [] OTHER -> Unknown(u)

\* impl From<Ciphersuite> for u32
Ciphersuite_to_u32(c) ==
    CASE c.variant = "ProtobufEd25519" -> 1
      [] c.variant = "BincodeEd25519" -> 2
      [] OTHER -> c.code

\* format_ciphersuite of the CLI
format_ciphersuite(c) ==
    CASE c.variant = "BincodeEd25519" -> <<"ed25519(bincode)">>
      [] c.variant = "ProtobufEd25519" -> <<"ed25519(protobuf)">>
      [] OTHER -> <<"unknown", c.code>>

(***************************************************************************)
(* Keys, digests and signatures of the model.                              *)
(*                                                                         *)
(* Ed25519 is modelled as an ideal signature scheme: a signature is the    *)
(* record of the public key whose secret key produced it and of the bytes  *)
(* it was produced over, together with its length in bytes.                *)
(***************************************************************************)
KeyBytes(fill, last) == Rep(fill, PUBLIC_KEY_LENGTH - 1) \o <<last>>
K1 == KeyBytes(1, 10)
K2 == KeyBytes(2, 11)
\* a second key whose last byte, hence key id, collides with K1's
K3 == KeyBytes(3, 10)
\* 32 bytes that do not decompress to a curve point
KOffCurve == Rep(255, PUBLIC_KEY_LENGTH)

NonHexString == <<"z", "z">>
ShortHexString == <<"0", "a">>

\* public_key strings an auditor configuration may list
ConfigKeyStrings == {hex_encode(K1), hex_encode(K3), NonHexString}

RECURSIVE SeqsUpTo(_, _)
SeqsUpTo(S, n) ==
    IF n = 0 THEN {<<>>}
    ELSE LET shorter == SeqsUpTo(S, n - 1)
         IN  shorter \cup {Append(q, x) : q \in {t \in shorter : Len(t) = n - 1}, x \in S}

DA == Rep(170, DIGEST_BYTES)
DB == Rep(187, DIGEST_BYTES)
DShort == <<170>>
Digests == {DA, DB, DShort}

Epochs == 0..MaxEpoch

\* u64 timestamps in milliseconds, written in decimal; the second is u64::MAX
TsNormal == "1700000000000"
TsHuge == "18446744073709551615"
Timestamps == {TsNormal, TsHuge}

\* time::OffsetDateTime::from_unix_timestamp((timestamp / 1000) as i64) is an
\* error when the date is outside the years the time crate represents
from_unix_timestamp_ok(ts) == ts # TsHuge

(***************************************************************************)
(* SignatureMessage and SignatureResponse (src/plexi_core/src/lib.rs)      *)
(***************************************************************************)
\* impl From<&SignatureResponse> for SignatureMessage
SignatureMessage_from(r) ==
    [ciphersuite |-> r.ciphersuite, namespace |-> r.namespace, timestamp |-> r.timestamp,
     epoch |-> r.epoch, digest |-> r.digest]

\* SignatureMessage::to_vec choosing the encoding by the numeric code of the
\* ciphersuite
SignatureMessage_to_vec_by_code(m, bc) ==
    CASE Ciphersuite_to_u32(m.ciphersuite) = 1 ->
            Ok(<<"proto", Ciphersuite_to_u32(m.ciphersuite), m.namespace, m.timestamp, m.epoch, m.digest>>)
      [] Ciphersuite_to_u32(m.ciphersuite) = 2 /\ bc ->
            Ok(<<"bincode", Ciphersuite_to_u32(m.ciphersuite), m.namespace, m.timestamp, m.epoch, m.digest>>)
      [] OTHER -> Err("Serialization")

\* SignatureMessage::to_vec; the encodings are injective, so the encoded
\* bytes are modelled by the encoding's name and the encoded fields
SignatureMessage_to_vec(m, bc) ==
    CASE m.ciphersuite.variant = "ProtobufEd25519" ->
            Ok(<<"proto", Ciphersuite_to_u32(m.ciphersuite), m.namespace, m.timestamp, m.epoch, m.digest>>)
      [] m.ciphersuite.variant = "BincodeEd25519" /\ bc ->
            Ok(<<"bincode", Ciphersuite_to_u32(m.ciphersuite), m.namespace, m.timestamp, m.epoch, m.digest>>)
      [] OTHER -> Err("Serialization")

\* a signature of `len` bytes made with the secret key of `pk` over `msg`
Sig(len, pk, msg) == [len |-> len, pk |-> pk, msg |-> msg]

\* ed25519_dalek::VerifyingKey::from_bytes
VerifyingKey_from_bytes_ok(key) == key # KOffCurve

\* ed25519_dalek::VerifyingKey::verify_strict
verify_strict(key, message, sig) == sig.pk = key /\ sig.msg = message

\* SignatureResponse::signature: panics unless the signature has SIGNATURE_LENGTH bytes
signature_panics(r) == r.signature.len # SIGNATURE_LENGTH

\* SignatureResponse::verify without the call of verify_strict: a key that
\* parses accepts every signature of the right length
SignatureResponse_verify_unchecked(r, key, bc) ==
    LET message == SignatureMessage_to_vec(SignatureMessage_from(r), bc)
    IN  CASE r.version.variant = "BincodeEd25519" /\ ~bc -> "err"
          [] r.version.variant = "Unknown" -> "err"
          [] ~message.ok -> "err"
          [] Len(key) # PUBLIC_KEY_LENGTH -> "err"
          [] ~VerifyingKey_from_bytes_ok(key) -> "err"
          [] signature_panics(r) -> "panic"
          [] OTHER -> "ok"

\* SignatureResponse::verify: "ok", "err" or "panic"
SignatureResponse_verify(r, key, bc) ==
    LET message == SignatureMessage_to_vec(SignatureMessage_from(r), bc)
    IN  CASE r.version.variant = "BincodeEd25519" /\ ~bc -> "err"
          [] r.version.variant = "Unknown" -> "err"
          [] ~message.ok -> "err"
          [] Len(key) # PUBLIC_KEY_LENGTH -> "err"
          [] ~VerifyingKey_from_bytes_ok(key) -> "err"
          [] signature_panics(r) -> "panic"
          [] verify_strict(key, message.val, r.signature) -> "ok"
          [] OTHER -> "err"

(***************************************************************************)
(* KeyInfo (src/plexi_core/src/auditor.rs)                                 *)
(***************************************************************************)
\* KeyInfo::key_id: the last byte of the decoded key; panics when the key is
\* not hex or decodes to no byte
KeyInfo_key_id(public_key) ==
    LET d == hex_decode(public_key)
    IN  IF d.ok /\ Len(d.val) > 0 THEN Ok(d.val[Len(d.val)]) ELSE Err("panic")

(***************************************************************************)
(* VerificationStatus and the report (src/plexi_cli/src/cmd.rs)            *)
(***************************************************************************)
Success == [tag |-> "Success", reason |-> ""]
Disabled == [tag |-> "Disabled", reason |-> ""]
Failed(r) == [tag |-> "Failed", reason |-> r]

\* impl Display for VerificationStatus
VerificationStatus_to_string(s) ==
    CASE s.tag = "Success" -> <<"success">>
      [] s.tag = "Disabled" -> <<"-">>
      [] OTHER -> <<"failed - ", s.reason>>

\* format_audit_response with the short report looking at the proof status
\* before the signature status
format_audit_response_proof_first(is_long, sig, sig_status, proof_status) ==
    IF ~is_long
    THEN CASE proof_status.tag = "Disabled" ->
                [kind |-> "ok", text |-> VerificationStatus_to_string(sig_status)]
           [] proof_status.tag = "Success" /\ sig_status.tag = "Failed" ->
                [kind |-> "ok", text |-> VerificationStatus_to_string(proof_status)]
           [] sig_status.tag = "Failed" ->
                [kind |-> "ok", text |-> VerificationStatus_to_string(sig_status)]
           [] OTHER ->
                [kind |-> "ok", text |-> VerificationStatus_to_string(proof_status)]
    ELSE IF ~from_unix_timestamp_ok(sig.timestamp)
    THEN [kind |-> "err", text |-> <<"timestamp out of range">>]
    ELSE IF signature_panics(sig)
    THEN [kind |-> "panic", text |-> <<"signature bytes have a known length">>]
    ELSE [kind |-> "ok",
          text |-> <<"Namespace", sig.namespace, format_ciphersuite(sig.version),
                     "Signature", sig.timestamp, sig.epoch,
                     hex_encode(sig.digest), sig.signature,
                     VerificationStatus_to_string(sig_status),
                     VerificationStatus_to_string(proof_status)>>]

\* format_audit_response: Ok(text), Err(..) or a panic
format_audit_response(is_long, sig, sig_status, proof_status) ==
    IF ~is_long
    THEN CASE proof_status.tag = "Disabled" ->
                [kind |-> "ok", text |-> VerificationStatus_to_string(sig_status)]
           [] sig_status.tag = "Failed" ->
                [kind |-> "ok", text |-> VerificationStatus_to_string(sig_status)]
           [] OTHER ->
                [kind |-> "ok", text |-> VerificationStatus_to_string(proof_status)]
    ELSE IF ~from_unix_timestamp_ok(sig.timestamp)
    THEN [kind |-> "err", text |-> <<"timestamp out of range">>]
    ELSE IF signature_panics(sig)
    THEN [kind |-> "panic", text |-> <<"signature bytes have a known length">>]
    ELSE [kind |-> "ok",
          text |-> <<"Namespace", sig.namespace, format_ciphersuite(sig.version),
                     "Signature", sig.timestamp, sig.epoch,
                     hex_encode(sig.digest), sig.signature,
                     VerificationStatus_to_string(sig_status),
                     VerificationStatus_to_string(proof_status)>>]

(***************************************************************************)
(* Namespace roots and the answers of the collaborators                    *)
(***************************************************************************)
UpperHexA == Rep("A", 2 * DIGEST_BYTES)

\* the part of a root string before the '/'
RootEpochParts == {u64_to_string(e) : e \in Epochs} \cup {<<"+", "1">>, <<"x">>}
\* the part of a root string after the '/'
RootDigestParts == {hex_encode(DA), UpperHexA, hex_encode(DB), <<"z", "z">>}

\* Epoch::as_root_epoch: "<epoch>/<digest>"
as_root_epoch(e, d) == e \o <<"/">> \o d

RootStrings ==
    {as_root_epoch(e, d) : e \in RootEpochParts, d \in RootDigestParts}
        \cup {<<"1">>, <<"1", "/", "a", "a", "/", "b", "b">>}

NamespaceStatuses == {"Online", "Initialization", "Disabled"}

LogDirectory == "https://logs.example"

\* the NamespaceInfo values GET /namespaces/{namespace} may answer
NamespaceInfos ==
    [log_directory : {None, Some(LogDirectory)},
     root : {None} \cup {Some(r) : r \in RootStrings},
     status : NamespaceStatuses]

\* the `version` and `ciphersuite` fields of the JSON record of a signature
\* (TempSignatureResponse), both optional
WireSuites ==
    {<<None, None>>} \cup
    {<<Some(Ciphersuite_from_u32(u)), None>> : u \in 1..3} \cup
    {<<None, Some(Ciphersuite_from_u32(u))>> : u \in 1..3} \cup
    {<<Some(Ciphersuite_from_u32(1)), Some(Ciphersuite_from_u32(3))>>}

\* deserialize_signature_response reading the legacy field only
deserialize_suite_version_required(version, ciphersuite) ==
    IF version.some THEN Ok(version.val) ELSE Err("missing field")

\* deserialize_signature_response preferring the current field
deserialize_suite_ciphersuite_first(version, ciphersuite) ==
    IF ciphersuite.some THEN Ok(ciphersuite.val)
    ELSE IF version.some THEN Ok(version.val)
    ELSE Err("missing field")

\* deserialize_signature_response: merge `version` and `ciphersuite`
deserialize_suite(version, ciphersuite) ==
    IF version.some THEN Ok(version.val)
    ELSE IF ciphersuite.some THEN Ok(ciphersuite.val)
    ELSE Err("missing field")

\* the signature a response carries: a valid one by K1, one by K1 over other
\* bytes, or a valid one cut to the wrong length
SignatureKinds == {"valid", "forged", "short"}

SignatureOf(r, kind, bc) ==
    LET m == SignatureMessage_to_vec(SignatureMessage_from(r), bc)
        bytes == IF m.ok THEN m.val ELSE <<"unsigned">>
    IN  CASE kind = "valid" -> Sig(SIGNATURE_LENGTH, K1, bytes)
          [] kind = "forged" -> Sig(SIGNATURE_LENGTH, K1, <<"other">>)
          [] OTHER -> Sig(SIGNATURE_LENGTH - 1, K1, bytes)

\* the SignatureResponse values that the record stored for epoch e may
\* deserialize to, over the domain D of collaborator answers
SignatureResponses(D, suite, e, bc) ==
    { LET r == [version |-> suite, ciphersuite |-> suite, namespace |-> "ns",
                timestamp |-> x[1], epoch |-> e, digest |-> x[2], key_id |-> x[3]]
      IN  [version |-> r.version, ciphersuite |-> r.ciphersuite, namespace |-> r.namespace,
           timestamp |-> r.timestamp, epoch |-> r.epoch, digest |-> r.digest,
           key_id |-> r.key_id, signature |-> SignatureOf(r, x[4], bc)]
      : x \in D.timestamps \X D.digests \X D.key_ids \X D.signatures }

\* the stored predecessor responses: only their digest is read
PreviousResponses(D, e) ==
    {[version |-> ProtobufEd25519, ciphersuite |-> ProtobufEd25519, namespace |-> "ns",
      timestamp |-> TsNormal, epoch |-> e, digest |-> d, key_id |-> None,
      signature |-> Sig(SIGNATURE_LENGTH, K1, <<"other">>)] : d \in D.previous_digests}

\* raw proof blobs: bytes that do not parse, bytes that parse but do not
\* convert, and append-only proofs from digest `start` to digest `end` at `epoch`
RawProofs ==
    {[kind |-> "garbage"], [kind |-> "unconvertible"]} \cup
    {[kind |-> "proof", start |-> s, end |-> e, epoch |-> n] :
        s \in {DA, DB}, e \in {DA, DB}, n \in 1..MaxEpoch}

\* AuditBlobName
AuditBlobName(e, previous_hash, current_hash) ==
    [epoch |-> e, previous_hash |-> previous_hash, current_hash |-> current_hash]

\* auditor::verify_raw_proof: parse, convert, then
\* akd::auditor::verify_consecutive_append_only
verify_raw_proof(b, raw) ==
    CASE raw.kind = "garbage" -> Err("unable to parse proof bytes")
      [] raw.kind = "unconvertible" ->
            Err("converting parsed protobuf proof to SingleAppendOnlyProof")
      [] raw.start = b.previous_hash /\ raw.end = b.current_hash /\ raw.epoch = b.epoch -> Ok("unit")
      [] OTHER -> Err("verifying raw proof")

\* auditor::compute_start_root_hash
compute_start_root_hash(raw) ==
    IF raw.kind = "proof" THEN Ok(raw.start) ELSE Err("unable to parse proof bytes")

\* Vec<u8> to [u8; 32]: try_into fails unless the length is DIGEST_BYTES
digest_try_into(d) == IF Len(d) = DIGEST_BYTES THEN Ok(d) ELSE Err("length")

\* impl Sub<u64> for Epoch: the subtraction overflows below zero
Epoch_sub(e, rhs) == IF e >= rhs THEN Ok(e - rhs) ELSE Err("overflow")

(***************************************************************************)
(* The domains the arguments and the collaborators' answers are drawn      *)
(* from.  ProofDomain is wide on the namespace, the predecessor and the    *)
(* proof and narrow on the keys; SignatureDomain is the reverse.           *)
(***************************************************************************)
ProofDomain ==
    [bincode |-> {TRUE},
     epochs |-> Epochs,
     epoch_args |-> {None} \cup {Some(e) : e \in Epochs},
     key_args |-> {None, Some(hex_encode(K1)), Some(hex_encode(K2))},
     wires |-> {<<None, None>>, <<Some(ProtobufEd25519), None>>, <<None, Some(ProtobufEd25519)>>},
     timestamps |-> {TsNormal},
     digests |-> Digests,
     key_ids |-> {Some(10)},
     signatures |-> {"valid", "forged"},
     configs |-> {<<hex_encode(K1)>>},
     namespace_infos |-> NamespaceInfos,
     previous_digests |-> Digests,
     raw_proofs |-> RawProofs]

SignatureDomain ==
    [bincode |-> BOOLEAN,
     epochs |-> {1},
     epoch_args |-> {None, Some(1)},
     key_args |-> {None, Some(hex_encode(K1)), Some(hex_encode(K2)), Some(hex_encode(KOffCurve)),
                   Some(NonHexString), Some(ShortHexString)},
     wires |-> WireSuites,
     timestamps |-> {TsNormal},
     digests |-> {DA},
     key_ids |-> {None, Some(10)},
     signatures |-> SignatureKinds,
     configs |-> SeqsUpTo(ConfigKeyStrings, MaxKeys),
     namespace_infos |-> {i \in NamespaceInfos :
                            /\ i.status = "Online"
                            /\ i.root \in {None, Some(as_root_epoch(<<"0">>, hex_encode(DA)))}},
     previous_digests |-> {DA},
     raw_proofs |-> {[kind |-> "garbage"],
                     [kind |-> "proof", start |-> DA, end |-> DA, epoch |-> 1]}]

(***************************************************************************)
(* State of one run of `audit` or `audit_local`                            *)
(***************************************************************************)
VARIABLES
    pc,                 \* the await point the command is suspended at
    cmd,                \* "none", "audit" or "audit_local"
    bincode,            \* whether the build enables the `bincode` feature
    epoch_arg,          \* argument `epoch` of audit
    verify,             \* argument `verify`
    verifying_key,      \* argument `verifying_key`
    long,               \* argument `long`
    proof_path,         \* argument `proof_path` of audit_local
    epoch,              \* the epoch whose signature is requested
    signature,          \* the target SignatureResponse
    config,             \* the auditor configuration's keys
    namespace_info,     \* the fetched NamespaceInfo
    root,               \* the parsed (root_epoch, root_digest)
    previous_signature, \* the SignatureResponse of the predecessor epoch
    blob,               \* the AuditBlobName
    raw_proof,          \* the proof bytes
    signature_verification_status, \* as passed to format_audit_response
    proof_verification_status,     \* as passed to format_audit_response
    result,             \* what the command returned, or that it panicked
    dots_handle,        \* the task spawned by print_dots
    calls               \* the collaborator calls made so far, in order

args == <<cmd, epoch_arg, verify, verifying_key, long, proof_path>>

vars ==
    <<pc, cmd, bincode, epoch_arg, verify, verifying_key, long, proof_path, epoch,
      signature, config, namespace_info, root, previous_signature, blob, raw_proof,
      signature_verification_status, proof_verification_status, result, dots_handle, calls>>

NoResult == [kind |-> "none", text |-> <<>>]
Error(e) == [kind |-> "err", text |-> <<e>>]
Panic(e) == [kind |-> "panic", text |-> <<e>>]

\* a collaborator call: the operation, its argument, and whether the answer
\* was a value ("ok"), not-found ("not_found") or an error ("error")
Call(op, arg, answer) == [op |-> op, arg |-> arg, answer |-> answer]

InitOver(D) ==
    /\ pc = "idle"
    /\ cmd = "none"
    /\ bincode \in D.bincode
    /\ epoch_arg = None
    /\ verify = FALSE
    /\ verifying_key = None
    /\ long = FALSE
    /\ proof_path = None
    /\ epoch = None
    /\ signature = None
    /\ config = None
    /\ namespace_info = None
    /\ root = None
    /\ previous_signature = None
    /\ blob = None
    /\ raw_proof = None
    /\ signature_verification_status = None
    /\ proof_verification_status = None
    /\ result = NoResult
    /\ dots_handle = "none"
    /\ calls = <<>>

\* `return format_audit_response(long, &signature, &s, &p)`
Return(is_long, sig, s, p) ==
    /\ result' = format_audit_response(is_long, sig, s, p)
    /\ signature_verification_status' = Some(s)
    /\ proof_verification_status' = Some(p)
    /\ pc' = "done"

\* the command ends without a report: `?` on an error, or a panic
Abort(r) ==
    /\ result' = r
    /\ pc' = "done"
    /\ UNCHANGED <<signature_verification_status, proof_verification_status>>

\* the command goes on to its next await point
Goto(l) ==
    /\ pc' = l
    /\ UNCHANGED <<signature_verification_status, proof_verification_status, result>>

(***************************************************************************)
(* The signature stage of audit (cmd.rs 226-278) and of audit_local        *)
(* (cmd.rs 441-472)                                                        *)
(***************************************************************************)
\* config.keys().iter().find(|key_info| key_info.key_id() == key_id): the keys
\* are tried in order up to the first match, and key_id() panics on a key
\* that is not hex
RECURSIVE find_key(_, _)
find_key(keys, kid) ==
    IF keys = <<>> THEN Ok(None)
    ELSE LET id == KeyInfo_key_id(Head(keys))
         IN  IF ~id.ok THEN Err("panic")
             ELSE IF id.val = kid THEN Ok(Some(Head(keys)))
             ELSE find_key(Tail(keys), kid)

\* lines 228-258: the key string audit verifies with
audit_select_key(key_arg, sig, keys) ==
    IF key_arg.some THEN [kind |-> "key", key |-> key_arg.val]
    ELSE IF ~sig.key_id.some
    THEN [kind |-> "failed", why |-> "don't want to implement random key validation"]
    ELSE LET found == find_key(keys, sig.key_id.val)
         IN  IF ~found.ok THEN [kind |-> "panic"]
             ELSE IF ~found.val.some
             THEN [kind |-> "failed", why |-> "auditor does not have key with key_id"]
             ELSE [kind |-> "key", key |-> found.val.val]

\* lines 442-452: audit_local has no configuration to look a key up in
audit_local_select_key(key_arg) ==
    IF key_arg.some THEN [kind |-> "key", key |-> key_arg.val]
    ELSE [kind |-> "failed", why |-> "auditor does not have key with key_id"]

\* lines 260-278 and 454-472: hex::decode of the key, then SignatureResponse::verify
verify_with_key(selected, sig, bc) ==
    IF selected.kind # "key" THEN selected
    ELSE LET decoded == hex_decode(selected.key)
         IN  IF ~decoded.ok THEN [kind |-> "failed", why |-> "auditor key is not valid hex"]
             ELSE LET v == SignatureResponse_verify(sig, decoded.val, bc)
                  IN  CASE v = "panic" -> [kind |-> "panic"]
                        [] v = "err" ->
                            [kind |-> "failed", why |-> "signature does not verify for the auditor key"]
                        [] OTHER -> [kind |-> "verified"]

(***************************************************************************)
(* audit (src/plexi_cli/src/cmd.rs 190-419), one action per await point    *)
(***************************************************************************)
\* lines 190-209: the call, with its arguments, and the construction of the client
AuditStart(D) ==
    /\ pc = "idle"
    /\ cmd' = "audit"
    /\ \E e \in D.epoch_args, v \in BOOLEAN, k \in D.key_args, l \in BOOLEAN :
        /\ epoch_arg' = e
        /\ verify' = v
        /\ verifying_key' = k
        /\ long' = l
        /\ \/ Abort(Error("invalid remote url")) /\ UNCHANGED epoch
           \/ epoch' = e /\ Goto(IF e.some THEN "a_signature" ELSE "a_last_verified_epoch")
    /\ UNCHANGED <<bincode, proof_path, signature, config, namespace_info, root,
                   previous_signature, blob, raw_proof, dots_handle, calls>>

\* lines 202-207: client.last_verified_epoch(namespace).await?
AuditLastVerifiedEpoch(D) ==
    /\ pc = "a_last_verified_epoch"
    /\ \/ /\ calls' = Append(calls, Call("last_verified_epoch", "ns", "error"))
          /\ Abort(Error("transport")) /\ UNCHANGED epoch
       \/ /\ calls' = Append(calls, Call("last_verified_epoch", "ns", "not_found"))
          /\ Abort(Error("namespace does not have a latest epoch")) /\ UNCHANGED epoch
       \/ /\ calls' = Append(calls, Call("last_verified_epoch", "ns", "ok"))
          /\ \E e \in D.epochs : epoch' = Some(e) /\ Goto("a_signature")
    /\ UNCHANGED <<args, bincode, signature, config, namespace_info, root,
                   previous_signature, blob, raw_proof, dots_handle>>

\* lines 210-224: client.signature(namespace, epoch).await?, then `if !verify`
AuditSignature(D) ==
    /\ pc = "a_signature"
    /\ \/ /\ calls' = Append(calls, Call("signature", epoch.val, "error"))
          /\ Abort(Error("transport")) /\ UNCHANGED signature
       \/ /\ calls' = Append(calls, Call("signature", epoch.val, "not_found"))
          /\ Abort(Error("Signature not found")) /\ UNCHANGED signature
       \/ \E wire \in D.wires :
            LET suite == deserialize_suite(wire[1], wire[2])
            IN  IF ~suite.ok
                THEN /\ calls' = Append(calls, Call("signature", epoch.val, "error"))
                     /\ Abort(Error("converting into json")) /\ UNCHANGED signature
                ELSE \E r \in SignatureResponses(D, suite.val, epoch.val, bincode) :
                        /\ calls' = Append(calls, Call("signature", epoch.val, "ok"))
                        /\ signature' = Some(r)
                        /\ IF ~verify
                           THEN Return(long, r, Disabled, Disabled)
                           ELSE Goto("a_auditor_config")
    /\ UNCHANGED <<args, bincode, epoch, config, namespace_info, root,
                   previous_signature, blob, raw_proof, dots_handle>>

\* lines 226-285: client.auditor_config().await?, the choice of the key, the
\* verification of the signature, and print_dots()
AuditAuditorConfig(D) ==
    /\ pc = "a_auditor_config"
    /\ \/ /\ calls' = Append(calls, Call("auditor_config", "info", "error"))
          /\ Abort(Error("auditor configuration")) /\ UNCHANGED <<config, dots_handle>>
       \/ \E keys \in D.configs :
            LET outcome == verify_with_key(audit_select_key(verifying_key, signature.val, keys),
                                           signature.val, bincode)
            IN  /\ calls' = Append(calls, Call("auditor_config", "info", "ok"))
                /\ config' = Some(keys)
                /\ CASE outcome.kind = "panic" ->
                            Abort(Panic("signature stage")) /\ UNCHANGED dots_handle
                     [] outcome.kind = "failed" ->
                            Return(long, signature.val, Failed(outcome.why), Disabled)
                                /\ UNCHANGED dots_handle
                     [] OTHER -> Goto("a_namespace") /\ dots_handle' = "running"
    /\ UNCHANGED <<args, bincode, epoch, signature, namespace_info, root,
                   previous_signature, blob, raw_proof>>

\* lines 316-330: split the root at '/', parse the epoch, decode the digest
parse_root(r) ==
    LET root_parts == str_split(r, "/")
    IN  IF Len(root_parts) # 2 THEN [kind |-> "invalid"]
        ELSE LET e == Epoch_from_str(root_parts[1])
                 d == hex_decode(root_parts[2])
             IN  IF ~e.ok THEN [kind |-> "err", err |-> e.err]
                 ELSE IF ~d.ok THEN [kind |-> "err", err |-> d.err]
                 ELSE [kind |-> "root", root_epoch |-> e.val, root_digest |-> d.val]

\* audit_check_root comparing the digest with the root's digest part as
\* text, without decoding the hex
audit_check_root_text_compared(info, sig) ==
    IF ~info.log_directory.some THEN [kind |-> "return", proof |-> Disabled]
    ELSE IF ~info.root.some
    THEN [kind |-> "return", proof |-> Failed("namespace does not have a root")]
    ELSE LET parsed == parse_root(info.root.val)
         IN  CASE parsed.kind = "invalid" ->
                    [kind |-> "return", proof |-> Failed("namespace has an invalid root")]
               [] parsed.kind = "err" -> [kind |-> "err", err |-> parsed.err]
               [] sig.epoch < parsed.root_epoch ->
                    [kind |-> "return", proof |-> Failed("epoch cannot be before root")]
               [] /\ sig.epoch = parsed.root_epoch
                  /\ hex_encode(sig.digest) = str_split(info.root.val, "/")[2] ->
                    [kind |-> "return", proof |-> Success]
               [] sig.epoch = parsed.root_epoch ->
                    [kind |-> "return",
                     proof |-> Failed("epoch is at root height but does not match root digest")]
               [] OTHER -> [kind |-> "continue", parsed |-> parsed]

\* audit_check_root with the epoch just below the root taken for one above it
audit_check_root_off_by_one(info, sig) ==
    IF ~info.log_directory.some THEN [kind |-> "return", proof |-> Disabled]
    ELSE IF ~info.root.some
    THEN [kind |-> "return", proof |-> Failed("namespace does not have a root")]
    ELSE LET parsed == parse_root(info.root.val)
         IN  CASE parsed.kind = "invalid" ->
                    [kind |-> "return", proof |-> Failed("namespace has an invalid root")]
               [] parsed.kind = "err" -> [kind |-> "err", err |-> parsed.err]
               [] sig.epoch + 1 < parsed.root_epoch ->
                    [kind |-> "return", proof |-> Failed("epoch cannot be before root")]
               [] sig.epoch = parsed.root_epoch /\ sig.digest = parsed.root_digest ->
                    [kind |-> "return", proof |-> Success]
               [] sig.epoch = parsed.root_epoch ->
                    [kind |-> "return",
                     proof |-> Failed("epoch is at root height but does not match root digest")]
               [] OTHER -> [kind |-> "continue", parsed |-> parsed]

\* audit_check_root looking at the root before the proof location
audit_check_root_root_first(info, sig) ==
    IF ~info.root.some
    THEN IF ~info.log_directory.some THEN [kind |-> "return", proof |-> Disabled]
         ELSE [kind |-> "return", proof |-> Failed("namespace does not have a root")]
    ELSE LET parsed == parse_root(info.root.val)
         IN  CASE parsed.kind = "invalid" ->
                    [kind |-> "return", proof |-> Failed("namespace has an invalid root")]
               [] parsed.kind = "err" -> [kind |-> "err", err |-> parsed.err]
               [] ~info.log_directory.some -> [kind |-> "return", proof |-> Disabled]
               [] sig.epoch < parsed.root_epoch ->
                    [kind |-> "return", proof |-> Failed("epoch cannot be before root")]
               [] sig.epoch = parsed.root_epoch /\ sig.digest = parsed.root_digest ->
                    [kind |-> "return", proof |-> Success]
               [] sig.epoch = parsed.root_epoch ->
                    [kind |-> "return",
                     proof |-> Failed("epoch is at root height but does not match root digest")]
               [] OTHER -> [kind |-> "continue", parsed |-> parsed]

\* audit_check_root taking a namespace without a root for one without proofs
audit_check_root_no_root_disabled(info, sig) ==
    IF ~info.log_directory.some \/ ~info.root.some THEN [kind |-> "return", proof |-> Disabled]
    ELSE LET parsed == parse_root(info.root.val)
         IN  CASE parsed.kind = "invalid" ->
                    [kind |-> "return", proof |-> Failed("namespace has an invalid root")]
               [] parsed.kind = "err" -> [kind |-> "err", err |-> parsed.err]
               [] sig.epoch < parsed.root_epoch ->
                    [kind |-> "return", proof |-> Failed("epoch cannot be before root")]
               [] sig.epoch = parsed.root_epoch /\ sig.digest = parsed.root_digest ->
                    [kind |-> "return", proof |-> Success]
               [] sig.epoch = parsed.root_epoch ->
                    [kind |-> "return",
                     proof |-> Failed("epoch is at root height but does not match root digest")]
               [] OTHER -> [kind |-> "continue", parsed |-> parsed]

\* audit_check_root comparing the digest with the root digest above the
\* root epoch too
audit_check_root_digest_compared_above(info, sig) ==
    IF ~info.log_directory.some THEN [kind |-> "return", proof |-> Disabled]
    ELSE IF ~info.root.some
    THEN [kind |-> "return", proof |-> Failed("namespace does not have a root")]
    ELSE LET parsed == parse_root(info.root.val)
         IN  CASE parsed.kind = "invalid" ->
                    [kind |-> "return", proof |-> Failed("namespace has an invalid root")]
               [] parsed.kind = "err" -> [kind |-> "err", err |-> parsed.err]
               [] sig.epoch < parsed.root_epoch ->
                    [kind |-> "return", proof |-> Failed("epoch cannot be before root")]
               [] sig.epoch >= parsed.root_epoch /\ sig.digest = parsed.root_digest ->
                    [kind |-> "return", proof |-> Success]
               [] sig.epoch = parsed.root_epoch ->
                    [kind |-> "return",
                     proof |-> Failed("epoch is at root height but does not match root digest")]
               [] OTHER -> [kind |-> "continue", parsed |-> parsed]

\* audit_check_root without the return for an epoch before the root
audit_check_root_before_root_continues(info, sig) ==
    IF ~info.log_directory.some THEN [kind |-> "return", proof |-> Disabled]
    ELSE IF ~info.root.some
    THEN [kind |-> "return", proof |-> Failed("namespace does not have a root")]
    ELSE LET parsed == parse_root(info.root.val)
         IN  CASE parsed.kind = "invalid" ->
                    [kind |-> "return", proof |-> Failed("namespace has an invalid root")]
               [] parsed.kind = "err" -> [kind |-> "err", err |-> parsed.err]
               [] sig.epoch = parsed.root_epoch /\ sig.digest = parsed.root_digest ->
                    [kind |-> "return", proof |-> Success]
               [] sig.epoch = parsed.root_epoch ->
                    [kind |-> "return",
                     proof |-> Failed("epoch is at root height but does not match root digest")]
               [] OTHER -> [kind |-> "continue", parsed |-> parsed]

\* lines 296-359: what audit does with the fetched namespace: a report
\* (kind "return"), an error (kind "err") or going on to the predecessor
audit_check_root(info, sig) ==
    IF ~info.log_directory.some THEN [kind |-> "return", proof |-> Disabled]
    ELSE IF ~info.root.some
    THEN [kind |-> "return", proof |-> Failed("namespace does not have a root")]
    ELSE LET parsed == parse_root(info.root.val)
         IN  CASE parsed.kind = "invalid" ->
                    [kind |-> "return", proof |-> Failed("namespace has an invalid root")]
               [] parsed.kind = "err" -> [kind |-> "err", err |-> parsed.err]
               [] sig.epoch < parsed.root_epoch ->
                    [kind |-> "return", proof |-> Failed("epoch cannot be before root")]
               [] sig.epoch = parsed.root_epoch /\ sig.digest = parsed.root_digest ->
                    [kind |-> "return", proof |-> Success]
               [] sig.epoch = parsed.root_epoch ->
                    [kind |-> "return",
                     proof |-> Failed("epoch is at root height but does not match root digest")]
               [] OTHER -> [kind |-> "continue", parsed |-> parsed]

\* lines 288-359: client.namespace(namespace).await? and the checks of the root
AuditNamespace(D) ==
    /\ pc = "a_namespace"
    /\ \/ /\ calls' = Append(calls, Call("namespace", "ns", "error"))
          /\ Abort(Error("transport")) /\ UNCHANGED <<namespace_info, root>>
       \/ /\ calls' = Append(calls, Call("namespace", "ns", "not_found"))
          /\ Return(long, signature.val, Success, Failed("namespace does not exist"))
          /\ UNCHANGED <<namespace_info, root>>
       \/ \E info \in D.namespace_infos :
            LET outcome == audit_check_root(info, signature.val)
            IN  /\ calls' = Append(calls, Call("namespace", "ns", "ok"))
                /\ namespace_info' = Some(info)
                /\ CASE outcome.kind = "return" ->
                            Return(long, signature.val, Success, outcome.proof) /\ UNCHANGED root
                     [] outcome.kind = "err" -> Abort(Error(outcome.err)) /\ UNCHANGED root
                     [] OTHER ->
                            /\ root' = Some(<<outcome.parsed.root_epoch, outcome.parsed.root_digest>>)
                            /\ Goto("a_previous_signature")
    /\ UNCHANGED <<args, bincode, epoch, signature, config, previous_signature, blob,
                   raw_proof, dots_handle>>

\* line 364: the message of the panic when the predecessor is not stored
NoPreviousSignature == "Epoch is not the root, there should be a previous signature"

\* AuditPreviousSignature taking the root epoch for the predecessor epoch
AuditPreviousSignature_from_root(D) ==
    /\ pc = "a_previous_signature"
    /\ LET previous_epoch == Ok(root.val[1])
       IN  IF ~previous_epoch.ok
           THEN /\ Abort(Panic("attempt to subtract with overflow"))
                /\ UNCHANGED <<previous_signature, blob, calls>>
           ELSE \/ /\ calls' = Append(calls, Call("signature", previous_epoch.val, "error"))
                   /\ Abort(Error("transport")) /\ UNCHANGED <<previous_signature, blob>>
                \/ /\ calls' = Append(calls, Call("signature", previous_epoch.val, "not_found"))
                   /\ Abort(Panic(NoPreviousSignature))
                   /\ UNCHANGED <<previous_signature, blob>>
                \/ \E prev \in PreviousResponses(D, previous_epoch.val) :
                        LET current_hash == digest_try_into(signature.val.digest)
                            previous_hash == digest_try_into(prev.digest)
                        IN  /\ calls' = Append(calls, Call("signature", previous_epoch.val, "ok"))
                            /\ previous_signature' = Some(prev)
                            /\ IF ~current_hash.ok \/ ~previous_hash.ok
                               THEN /\ Return(long, signature.val, Success,
                                              Failed("digest length invalid"))
                                    /\ UNCHANGED blob
                               ELSE /\ blob' = Some(AuditBlobName(signature.val.epoch,
                                                                  previous_hash.val, current_hash.val))
                                    /\ Goto("a_proof")
    /\ UNCHANGED <<args, bincode, epoch, signature, config, namespace_info, root,
                   raw_proof, dots_handle>>

\* lines 361-388: client.signature(namespace, &(*signature.epoch() - 1)).await?
\* .expect(..), then the two digests of the AuditBlobName
AuditPreviousSignature(D) ==
    /\ pc = "a_previous_signature"
    /\ LET previous_epoch == Epoch_sub(signature.val.epoch, 1)
       IN  IF ~previous_epoch.ok
           THEN /\ Abort(Panic("attempt to subtract with overflow"))
                /\ UNCHANGED <<previous_signature, blob, calls>>
           ELSE \/ /\ calls' = Append(calls, Call("signature", previous_epoch.val, "error"))
                   /\ Abort(Error("transport")) /\ UNCHANGED <<previous_signature, blob>>
                \/ /\ calls' = Append(calls, Call("signature", previous_epoch.val, "not_found"))
                   /\ Abort(Panic(NoPreviousSignature))
                   /\ UNCHANGED <<previous_signature, blob>>
                \/ \E prev \in PreviousResponses(D, previous_epoch.val) :
                        LET current_hash == digest_try_into(signature.val.digest)
                            previous_hash == digest_try_into(prev.digest)
                        IN  /\ calls' = Append(calls, Call("signature", previous_epoch.val, "ok"))
                            /\ previous_signature' = Some(prev)
                            /\ IF ~current_hash.ok \/ ~previous_hash.ok
                               THEN /\ Return(long, signature.val, Success,
                                              Failed("digest length invalid"))
                                    /\ UNCHANGED blob
                               ELSE /\ blob' = Some(AuditBlobName(signature.val.epoch,
                                                                  previous_hash.val, current_hash.val))
                                    /\ Goto("a_proof")
    /\ UNCHANGED <<args, bincode, epoch, signature, config, namespace_info, root,
                   raw_proof, dots_handle>>

\* audit_proof_fetched taking a proof that is not found for an empty proof
audit_proof_fetched_empty_proof(answer) ==
    IF ~answer.ok THEN [kind |-> "err"]
    ELSE IF ~answer.val.some THEN [kind |-> "continue", raw_proof |-> [kind |-> "garbage"]]
    ELSE [kind |-> "continue", raw_proof |-> answer.val.val]

\* lines 389-396: what audit does with the answer of client.proof: `?` on an
\* error, a report when the proof is not found, else on to the oracle
audit_proof_fetched(answer) ==
    IF ~answer.ok THEN [kind |-> "err"]
    ELSE IF ~answer.val.some
    THEN [kind |-> "return", proof |-> Failed("cannot retrieve audit proof")]
    ELSE [kind |-> "continue", raw_proof |-> answer.val.val]

\* lines 389-396: client.proof(&blob, Some(log_directory)).await?
AuditProof(D) ==
    /\ pc = "a_proof"
    /\ \E answer \in {Err("error"), Ok(None)} \cup {Ok(Some(raw)) : raw \in D.raw_proofs} :
        LET outcome == audit_proof_fetched(answer)
        IN  /\ calls' = Append(calls, Call("proof", <<blob.val, namespace_info.val.log_directory.val>>,
                                           IF ~answer.ok THEN "error"
                                           ELSE IF answer.val.some THEN "ok" ELSE "not_found"))
            /\ CASE outcome.kind = "err" -> Abort(Error("transport")) /\ UNCHANGED raw_proof
                 [] outcome.kind = "return" ->
                        Return(long, signature.val, Success, outcome.proof) /\ UNCHANGED raw_proof
                 [] OTHER -> raw_proof' = Some(outcome.raw_proof) /\ Goto("a_verify_raw_proof")
    /\ UNCHANGED <<args, bincode, epoch, signature, config, namespace_info, root,
                   previous_signature, blob, dots_handle>>

\* AuditVerifyRawProof reporting a fixed reason in place of the oracle's
AuditVerifyRawProof_reason_dropped ==
    /\ pc = "a_verify_raw_proof"
    /\ dots_handle' = "aborted"
    /\ LET verification == verify_raw_proof(blob.val, raw_proof.val)
       IN  /\ calls' = Append(calls, Call("verify_raw_proof", <<blob.val, raw_proof.val>>,
                                          IF verification.ok THEN "ok" ELSE "error"))
           /\ IF ~verification.ok
              THEN Return(long, signature.val, Success, Failed("proof verification failed"))
              ELSE Return(long, signature.val, Success, Success)
    /\ UNCHANGED <<args, bincode, epoch, signature, config, namespace_info, root,
                   previous_signature, blob, raw_proof>>

\* lines 398-418: auditor::verify_raw_proof(&blob, &raw_proof).await,
\* dots_handle.abort(), and the final report
AuditVerifyRawProof ==
    /\ pc = "a_verify_raw_proof"
    /\ dots_handle' = "aborted"
    /\ LET verification == verify_raw_proof(blob.val, raw_proof.val)
       IN  /\ calls' = Append(calls, Call("verify_raw_proof", <<blob.val, raw_proof.val>>,
                                          IF verification.ok THEN "ok" ELSE "error"))
           /\ IF ~verification.ok
              THEN Return(long, signature.val, Success, Failed(verification.err))
              ELSE Return(long, signature.val, Success, Success)
    /\ UNCHANGED <<args, bincode, epoch, signature, config, namespace_info, root,
                   previous_signature, blob, raw_proof>>

(***************************************************************************)
(* audit_local (src/plexi_cli/src/cmd.rs 421-527)                          *)
(***************************************************************************)
\* what the proof file gives: it cannot be opened, it cannot be read, or bytes
ProofFiles(D) ==
    {Err("cannot read input file"), Err("read_to_end")} \cup {Ok(raw) : raw \in D.raw_proofs}

\* lines 432-494, after the signature was deserialized: how the synchronous
\* part of audit_local ends
audit_local_checks(sig, v, key_arg, path, file, bc) ==
    LET outcome == verify_with_key(audit_local_select_key(key_arg), sig, bc)
    IN  IF ~v THEN [kind |-> "return", sig |-> Disabled, proof |-> Disabled]
        ELSE IF outcome.kind = "panic" THEN [kind |-> "panic"]
        ELSE IF outcome.kind = "failed"
        THEN [kind |-> "return", sig |-> Failed(outcome.why), proof |-> Disabled]
        ELSE IF ~path.some THEN [kind |-> "return", sig |-> Success, proof |-> Disabled]
        ELSE IF ~file.ok /\ file.err = "cannot read input file"
        THEN [kind |-> "err", err |-> file.err]
        ELSE IF ~file.ok
        THEN [kind |-> "return", sig |-> Success, proof |-> Failed(file.err)]
        ELSE [kind |-> "continue", raw_proof |-> file.val]

\* lines 421-494: the call, with its arguments; read and deserialize the
\* signature, verify it, read the proof file
AuditLocalStart(D) ==
    /\ pc = "idle"
    /\ cmd' = "audit_local"
    /\ \E v \in BOOLEAN, k \in D.key_args, l \in BOOLEAN, path \in {None, Some("proof.bin")} :
        /\ verify' = v
        /\ verifying_key' = k
        /\ long' = l
        /\ proof_path' = path
        /\ \/ \E e \in {"cannot read input file", "serde_json"} :
                Abort(Error(e)) /\ UNCHANGED <<signature, raw_proof>>
           \/ \E wire \in D.wires :
                LET suite == deserialize_suite(wire[1], wire[2])
                IN  IF ~suite.ok
                    THEN Abort(Error("serde_json")) /\ UNCHANGED <<signature, raw_proof>>
                    ELSE \E e \in D.epochs :
                         \E r \in SignatureResponses(D, suite.val, e, bincode) :
                         \E file \in IF v /\ path.some THEN ProofFiles(D) ELSE {Err("unread")} :
                            LET o == audit_local_checks(r, v, k, path, file, bincode)
                            IN  /\ signature' = Some(r)
                                /\ CASE o.kind = "return" ->
                                            Return(l, r, o.sig, o.proof) /\ UNCHANGED raw_proof
                                     [] o.kind = "panic" ->
                                            Abort(Panic("signature stage")) /\ UNCHANGED raw_proof
                                     [] o.kind = "err" ->
                                            Abort(Error(o.err)) /\ UNCHANGED raw_proof
                                     [] OTHER ->
                                            /\ raw_proof' = Some(o.raw_proof)
                                            /\ Goto("l_compute_start_root_hash")
    /\ UNCHANGED <<bincode, epoch_arg, epoch, config, namespace_info, root,
                   previous_signature, blob, dots_handle, calls>>

\* AuditLocalComputeStartRootHash with the two hashes of the AuditBlobName exchanged
AuditLocalComputeStartRootHash_hashes_exchanged ==
    /\ pc = "l_compute_start_root_hash"
    /\ LET previous_hash == compute_start_root_hash(raw_proof.val)
           current_hash == digest_try_into(signature.val.digest)
       IN  /\ calls' = Append(calls, Call("compute_start_root_hash", raw_proof.val,
                                          IF previous_hash.ok THEN "ok" ELSE "error"))
           /\ IF ~previous_hash.ok
              THEN Abort(Error(previous_hash.err)) /\ UNCHANGED <<blob, dots_handle>>
              ELSE IF ~current_hash.ok
              THEN Abort(Error("could not convert slice to array")) /\ UNCHANGED <<blob, dots_handle>>
              ELSE /\ blob' = Some(AuditBlobName(signature.val.epoch, current_hash.val,
                                                 previous_hash.val))
                   /\ dots_handle' = "running"
                   /\ Goto("l_verify_raw_proof")
    /\ UNCHANGED <<args, bincode, epoch, signature, config, namespace_info, root,
                   previous_signature, raw_proof>>

\* lines 495-504: auditor::compute_start_root_hash(&raw_proof).await?, the
\* conversion of the digest, and print_dots()
AuditLocalComputeStartRootHash ==
    /\ pc = "l_compute_start_root_hash"
    /\ LET previous_hash == compute_start_root_hash(raw_proof.val)
           current_hash == digest_try_into(signature.val.digest)
       IN  /\ calls' = Append(calls, Call("compute_start_root_hash", raw_proof.val,
                                          IF previous_hash.ok THEN "ok" ELSE "error"))
           /\ IF ~previous_hash.ok
              THEN Abort(Error(previous_hash.err)) /\ UNCHANGED <<blob, dots_handle>>
              ELSE IF ~current_hash.ok
              THEN Abort(Error("could not convert slice to array")) /\ UNCHANGED <<blob, dots_handle>>
              ELSE /\ blob' = Some(AuditBlobName(signature.val.epoch, previous_hash.val,
                                                 current_hash.val))
                   /\ dots_handle' = "running"
                   /\ Goto("l_verify_raw_proof")
    /\ UNCHANGED <<args, bincode, epoch, signature, config, namespace_info, root,
                   previous_signature, raw_proof>>

\* lines 506-526: auditor::verify_raw_proof(&blob, &raw_proof).await,
\* dots_handle.abort(), and the final report
AuditLocalVerifyRawProof ==
    /\ pc = "l_verify_raw_proof"
    /\ dots_handle' = "aborted"
    /\ LET verification == verify_raw_proof(blob.val, raw_proof.val)
       IN  /\ calls' = Append(calls, Call("verify_raw_proof", <<blob.val, raw_proof.val>>,
                                          IF verification.ok THEN "ok" ELSE "error"))
           /\ IF ~verification.ok
              THEN Return(long, signature.val, Success, Failed(verification.err))
              ELSE Return(long, signature.val, Success, Success)
    /\ UNCHANGED <<args, bincode, epoch, signature, config, namespace_info, root,
                   previous_signature, blob, raw_proof>>

(***************************************************************************)
(* The specifications                                                      *)
(***************************************************************************)
Init == InitOver(ProofDomain)

Next ==
    \/ AuditStart(ProofDomain)
    \/ AuditLastVerifiedEpoch(ProofDomain)
    \/ AuditSignature(ProofDomain)
    \/ AuditAuditorConfig(ProofDomain)
    \/ AuditNamespace(ProofDomain)
    \/ AuditPreviousSignature(ProofDomain)
    \/ AuditProof(ProofDomain)
    \/ AuditVerifyRawProof
    \/ AuditLocalStart(ProofDomain)
    \/ AuditLocalComputeStartRootHash
    \/ AuditLocalVerifyRawProof

\* audit and audit_local over ProofDomain
Spec == Init /\ [][Next]_vars

InitSignature == InitOver(SignatureDomain)

NextSignature ==
    \/ AuditStart(SignatureDomain)
    \/ AuditLastVerifiedEpoch(SignatureDomain)
    \/ AuditSignature(SignatureDomain)
    \/ AuditAuditorConfig(SignatureDomain)
    \/ AuditNamespace(SignatureDomain)
    \/ AuditPreviousSignature(SignatureDomain)
    \/ AuditProof(SignatureDomain)
    \/ AuditVerifyRawProof
    \/ AuditLocalStart(SignatureDomain)
    \/ AuditLocalComputeStartRootHash
    \/ AuditLocalVerifyRawProof

\* audit and audit_local over SignatureDomain
SpecSignature == InitSignature /\ [][NextSignature]_vars

(***************************************************************************)
(* format_audit_response on its own: every pair of statuses                *)
(***************************************************************************)
FailureReasons ==
    {"signature does not verify for the auditor key", "auditor key is not valid hex",
     "epoch cannot be before root", "cannot retrieve audit proof"}

VerificationStatuses == {Success, Disabled} \cup {Failed(r) : r \in FailureReasons}

FormatDomain ==
    [ProofDomain EXCEPT !.timestamps = Timestamps, !.digests = {DA}, !.signatures = {"valid", "short"}]

InitFormat ==
    /\ pc = "format"
    /\ cmd = "format_audit_response"
    /\ bincode = TRUE
    /\ epoch_arg = None
    /\ verify = FALSE
    /\ verifying_key = None
    /\ long \in BOOLEAN
    /\ proof_path = None
    /\ epoch = None
    /\ signature \in {Some(r) : r \in SignatureResponses(FormatDomain, ProtobufEd25519, 1, TRUE)}
    /\ config = None
    /\ namespace_info = None
    /\ root = None
    /\ previous_signature = None
    /\ blob = None
    /\ raw_proof = None
    /\ signature_verification_status \in {Some(s) : s \in VerificationStatuses}
    /\ proof_verification_status \in {Some(s) : s \in VerificationStatuses}
    /\ result = NoResult
    /\ dots_handle = "none"
    /\ calls = <<>>

\* cmd.rs 122-188
FormatAuditResponse ==
    /\ pc = "format"
    /\ result' = format_audit_response(long, signature.val, signature_verification_status.val,
                                       proof_verification_status.val)
    /\ pc' = "done"
    /\ UNCHANGED <<args, bincode, epoch, signature, config, namespace_info, root,
                   previous_signature, blob, raw_proof, signature_verification_status,
                   proof_verification_status, dots_handle, calls>>

NextFormat == FormatAuditResponse

\* format_audit_response over every pair of statuses
SpecFormat == InitFormat /\ [][NextFormat]_vars

(***************************************************************************)
(* The functions of plexi_core called on their own                         *)
(***************************************************************************)
\* PlexiError
BadParameter(field) == [error |-> "BadParameter", field |-> field]
MissingParameter(field) == [error |-> "MissingParameter", field |-> field]
InvalidRoot == [error |-> "InvalidRoot", field |-> ""]

\* the ciphersuites of the model: the two known ones and an unknown one
Ciphersuites == {ProtobufEd25519, BincodeEd25519, Unknown(3)}

\* the fields of a SignatureMessage besides the ciphersuite
MessageNamespaces == {"ns", "other"}
MessageEpochs == {1, 2}
MessageDigests == {DA, DB}

SignatureMessages ==
    [ciphersuite : Ciphersuites, namespace : MessageNamespaces, timestamp : Timestamps,
     epoch : MessageEpochs, digest : MessageDigests]

\* the messages responses are built from: one per ciphersuite
BaseMessages ==
    {m \in SignatureMessages :
        m.namespace = "ns" /\ m.timestamp = TsNormal /\ m.epoch = 1 /\ m.digest = DA}

\* the messages that differ from m in at most one field
OneFieldChanged(m) ==
    {n \in SignatureMessages :
        Cardinality({f \in {"ciphersuite", "namespace", "timestamp", "epoch", "digest"} :
                        n[f] # m[f]}) <= 1}

\* the signatures a response may carry: by K1 or K2 over the bytes a signer
\* encodes a message to, whole or cut by one byte, or with a bit flipped so
\* that no key accepts them
SignaturesOver(messages) ==
    LET encodings == {SignatureMessage_to_vec(n, TRUE) : n \in messages}
        signed == {e.val : e \in {x \in encodings : x.ok}}
    IN  {Sig(SIGNATURE_LENGTH, k, b) : k \in {K1, K2}, b \in signed}
            \cup {Sig(SIGNATURE_LENGTH - 1, K1, b) : b \in signed}
            \cup {Sig(SIGNATURE_LENGTH, <<>>, b) : b \in signed}

\* SignatureResponse::new: version and ciphersuite are separate arguments
SignatureResponse_new(version, ciphersuite, namespace, timestamp, e, digest, sig, key_id, sm) ==
    [version |-> version, ciphersuite |-> ciphersuite, namespace |-> namespace,
     timestamp |-> timestamp, epoch |-> e, digest |-> digest, key_id |-> key_id,
     signature |-> sig, serialized_message |-> sm]

\* the verifying keys verify is called with: two keys, bytes off the curve,
\* and a key of the wrong length
VerifyingKeys == {K1, K2, KOffCurve, <<1, 10>>}

\* is_first_epoch looking at the status before comparing the roots
is_first_epoch_status_first(info, message_root) ==
    IF ~info.root.some THEN Ok(info.status = "Initialization")
    ELSE IF info.status # "Initialization" THEN Ok(FALSE)
    ELSE IF info.root.val = message_root THEN Ok(TRUE)
    ELSE Err(InvalidRoot)

\* NamespaceInfo::is_first_epoch
is_first_epoch(info, message_root) ==
    IF ~info.root.some THEN Ok(info.status = "Initialization")
    ELSE IF info.root.val = message_root THEN Ok(TRUE)
    ELSE IF info.status # "Initialization" THEN Ok(FALSE)
    ELSE Err(InvalidRoot)

\* one call of a function: its name, its arguments and what it answered
Apply(op, arg, answer) ==
    /\ pc = "idle"
    /\ pc' = "done"
    /\ cmd' = op
    /\ calls' = <<Call(op, arg, answer)>>
    /\ UNCHANGED <<bincode, epoch_arg, verify, verifying_key, long, proof_path, epoch, config,
                   root, previous_signature, blob, raw_proof, signature_verification_status,
                   proof_verification_status, result, dots_handle>>

\* SignatureResponse::verify(&self, verifying_key)
CoreVerify ==
    \E m \in BaseMessages :
    \E sig \in SignaturesOver(OneFieldChanged(m)) :
    \E version \in Ciphersuites, key \in VerifyingKeys :
        LET r == SignatureResponse_new(version, m.ciphersuite, m.namespace, m.timestamp,
                                       m.epoch, m.digest, sig, None, None)
        IN  /\ Apply("verify", <<r, key>>, SignatureResponse_verify(r, key, bincode))
            /\ signature' = Some(r)
            /\ UNCHANGED namespace_info

\* NamespaceInfo::is_first_epoch(&self, message_root)
CoreIsFirstEpoch ==
    \E info \in NamespaceInfos, message_root \in RootStrings :
        /\ Apply("is_first_epoch", <<info, message_root>>, is_first_epoch(info, message_root))
        /\ namespace_info' = Some(info)
        /\ UNCHANGED signature

\* every ciphersuite value of the model, the unknown ones with a known code
\* included
AllCiphersuites == Ciphersuites \cup {Unknown(1), Unknown(2)}

\* const SIGNATURE_VERSIONS
SIGNATURE_VERSIONS == {ProtobufEd25519, BincodeEd25519}

\* SignatureMessage::new
SignatureMessage_new(ciphersuite, namespace, timestamp, e, digest) ==
    IF ciphersuite \notin SIGNATURE_VERSIONS THEN Err(BadParameter("version"))
    ELSE Ok([ciphersuite |-> ciphersuite, namespace |-> namespace, timestamp |-> timestamp,
             epoch |-> e, digest |-> digest])

\* the ways to a SignatureMessage: SignatureMessage::new, and the conversion
\* from a SignatureResponse of any ciphersuite
ObtainedMessages ==
    {<<"new", SignatureMessage_new(c, "ns", TsNormal, 1, DA).val>> : c \in SIGNATURE_VERSIONS}
        \cup {<<"from", SignatureMessage_from(
                            SignatureResponse_new(v, c, "ns", TsNormal, 1, DA,
                                                  Sig(SIGNATURE_LENGTH, K1, <<"other">>),
                                                  None, None))>> :
                v \in Ciphersuites, c \in AllCiphersuites}

\* SignatureMessage::to_vec(&self)
CoreToVec ==
    \E o \in ObtainedMessages :
        /\ Apply("to_vec", o, SignatureMessage_to_vec(o[2], bincode))
        /\ UNCHANGED <<signature, namespace_info>>

\* SignatureMessage::new(ciphersuite, namespace, timestamp, epoch, digest)
CoreNew ==
    \E c \in AllCiphersuites, ns \in MessageNamespaces, e \in MessageEpochs, d \in MessageDigests :
        /\ Apply("new", <<c, ns, TsNormal, e, d>>, SignatureMessage_new(c, ns, TsNormal, e, d))
        /\ UNCHANGED <<signature, namespace_info>>

\* the u32 codes of the model: 0..MaxCode and the largest integer of the checker
Codes == 0..MaxCode \cup {2147483647}

\* Ciphersuite::from(u32)
CoreFromU32 ==
    \E u \in Codes :
        /\ Apply("Ciphersuite::from", u, Ciphersuite_from_u32(u))
        /\ UNCHANGED <<signature, namespace_info>>

\* u32::from(Ciphersuite)
CoreToU32 ==
    \E c \in AllCiphersuites \cup {Unknown(u) : u \in Codes} :
        /\ Apply("u32::from", c, Ciphersuite_to_u32(c))
        /\ UNCHANGED <<signature, namespace_info>>

(***************************************************************************)
(* Serialize and Deserialize for SignatureResponse.  A JSON record is a    *)
(* record of optional ciphersuite codes, of hex strings for the digest,    *)
(* the signature and the serialized message, and of the other fields; None *)
(* stands for a field that is absent or null.                              *)
(***************************************************************************)
\* Option::map with Ciphersuite::from, with hex::encode
Option_map_from_u32(o) == IF o.some THEN Some(Ciphersuite_from_u32(o.val)) ELSE None
Option_map_hex_encode(o) == IF o.some THEN Some(hex_encode(o.val)) ELSE None

\* the JSON records deserialization is called on
JsonCodes == {None} \cup {Some(u) : u \in 1..MaxCode}
JsonRecords ==
    [version : JsonCodes, ciphersuite : JsonCodes, namespace : {"n"}, timestamp : {TsNormal},
     epoch : {3}, digest : {<<"0", "4">>, <<"z", "z">>}, signature : {<<"0", "5">>, <<"0">>},
     key_id : {None, Some(6)},
     serialized_message : {None, Some(<<"0", "7">>), Some(<<"z", "z">>)}]

\* deserialize_signature_response: TempSignatureResponse::deserialize, the
\* merge of version and ciphersuite, and the decoding of serialized_message
deserialize_signature_response(json) ==
    LET digest == hex_decode(json.digest)
        sig == hex_decode(json.signature)
        suite_value == deserialize_suite(Option_map_from_u32(json.version),
                                         Option_map_from_u32(json.ciphersuite))
        sm == IF json.serialized_message.some THEN hex_decode(json.serialized_message.val)
              ELSE Ok(<<>>)
    IN  IF ~digest.ok THEN Err(digest.err)
        ELSE IF ~sig.ok THEN Err(sig.err)
        ELSE IF ~suite_value.ok THEN Err("Either version or ciphersuite must be provided")
        ELSE IF ~sm.ok THEN Err("serialized_message should be hex encoded")
        ELSE Ok([version |-> suite_value.val, ciphersuite |-> suite_value.val,
                 namespace |-> json.namespace, timestamp |-> json.timestamp,
                 epoch |-> json.epoch, digest |-> digest.val, key_id |-> json.key_id,
                 signature |-> sig.val,
                 serialized_message |-> IF json.serialized_message.some THEN Some(sm.val)
                                        ELSE None])

\* SignatureResponse::serialize writing the version field from self.version
SignatureResponse_serialize_own_version(r) ==
    [version |-> Some(Ciphersuite_to_u32(r.version)),
     ciphersuite |-> Some(Ciphersuite_to_u32(r.ciphersuite)),
     namespace |-> r.namespace, timestamp |-> r.timestamp, epoch |-> r.epoch,
     digest |-> hex_encode(r.digest), signature |-> hex_encode(r.signature),
     key_id |-> r.key_id,
     serialized_message |-> Option_map_hex_encode(r.serialized_message)]

\* impl Serialize for SignatureResponse: both version and ciphersuite are
\* written from self.ciphersuite
SignatureResponse_serialize(r) ==
    [version |-> Some(Ciphersuite_to_u32(r.ciphersuite)),
     ciphersuite |-> Some(Ciphersuite_to_u32(r.ciphersuite)),
     namespace |-> r.namespace, timestamp |-> r.timestamp, epoch |-> r.epoch,
     digest |-> hex_encode(r.digest), signature |-> hex_encode(r.signature),
     key_id |-> r.key_id,
     serialized_message |-> Option_map_hex_encode(r.serialized_message)]

\* the responses serialization is called on; their signature is plain bytes
SerializedResponses ==
    {SignatureResponse_new(v, c, "n", TsNormal, 3, d, <<5>>, k, sm) :
        v \in Ciphersuites, c \in Ciphersuites, d \in {<<4>>, <<>>}, k \in {None, Some(6)},
        sm \in {None, Some(<<7>>)}}

\* serde_json::from_str::<SignatureResponse>
CoreDeserialize ==
    \E json \in JsonRecords :
        /\ Apply("deserialize", json, deserialize_signature_response(json))
        /\ UNCHANGED <<signature, namespace_info>>

\* serde_json::to_string(&SignatureResponse)
CoreSerialize ==
    \E r \in SerializedResponses :
        /\ Apply("serialize", r, SignatureResponse_serialize(r))
        /\ signature' = Some(r)
        /\ UNCHANGED namespace_info

\* serde_json::to_string, then serde_json::from_str on its output
CoreRoundTrip ==
    \E r \in SerializedResponses :
        /\ Apply("round_trip", r, deserialize_signature_response(SignatureResponse_serialize(r)))
        /\ signature' = Some(r)
        /\ UNCHANGED namespace_info

(***************************************************************************)
(* TryFrom<HashMap<String, String>> for Report.  A map is a record of      *)
(* optional strings, one per key the conversion looks up; None stands for  *)
(* a key the map does not hold.                                            *)
(***************************************************************************)
\* the keys, in the order the conversion reads them
ReportKeys ==
    <<"version", "ciphersuite", "namespace", "timestamp", "epoch", "digest", "signature",
      "key_id", "serialized_message">>

\* str::parse::<u8>
parse_u8(s) ==
    LET r == parse_u64(s)
    IN  IF r.ok /\ r.val > 255 THEN Err("PosOverflow") ELSE r

\* Ciphersuite::from_str: parse a u32, then From<u32>
Ciphersuite_from_str(s) ==
    LET u == parse_u64(s)
    IN  IF u.ok THEN Ok(Ciphersuite_from_u32(u.val)) ELSE u

\* a map that converts, and for each key a value that is stored in its place
GoodMap ==
    [version |-> Some(<<"1">>), ciphersuite |-> Some(<<"2">>), namespace |-> Some(<<"n">>),
     timestamp |-> Some(<<"2">>), epoch |-> Some(<<"3">>), digest |-> Some(<<"0", "4">>),
     signature |-> Some(<<"0", "5">>), key_id |-> Some(<<"6">>),
     serialized_message |-> Some(<<"0", "7">>)]

OtherValues ==
    [version |-> <<"x">>, ciphersuite |-> <<"x">>, namespace |-> <<"z", "z">>,
     timestamp |-> <<"x">>, epoch |-> <<"x">>, digest |-> <<"z", "z">>,
     signature |-> <<"0">>, key_id |-> <<"2", "5", "6">>, serialized_message |-> <<"z", "z">>]

\* the entry of key k: removed, given its other value, or kept
Altered(k, how) ==
    CASE how = "absent" -> None
      [] how = "other" -> Some(OtherValues[k])
      [] OTHER -> GoodMap[k]

\* the maps the conversion is called on: GoodMap with at most two entries
\* removed or given their other value
ReportMaps ==
    {[k \in DOMAIN GoodMap |->
        IF k = ReportKeys[i] THEN Altered(k, a)
        ELSE IF k = ReportKeys[j] THEN Altered(k, b)
        ELSE GoodMap[k]] :
        i \in 1..Len(ReportKeys), j \in 1..Len(ReportKeys),
        a \in {"absent", "other"}, b \in {"absent", "other", "kept"}}

\* impl TryFrom<HashMap<String, String>> for Report: the fields are built in
\* the order of the struct literal and the first error is returned
Report_try_from(value) ==
    LET version == IF value.version.some THEN Ciphersuite_from_str(value.version.val) ELSE Err("")
        ciphersuite == IF value.ciphersuite.some THEN Ciphersuite_from_str(value.ciphersuite.val)
                       ELSE Err("")
        timestamp == IF value.timestamp.some THEN parse_u64(value.timestamp.val) ELSE Err("")
        e == IF value.epoch.some THEN Epoch_from_str(value.epoch.val) ELSE Err("")
        digest == IF value.digest.some THEN hex_decode(value.digest.val) ELSE Err("")
        sig == IF value.signature.some THEN hex_decode(value.signature.val) ELSE Err("")
        key_id == IF value.key_id.some THEN parse_u8(value.key_id.val) ELSE Ok(0)
        sm == IF value.serialized_message.some THEN hex_decode(value.serialized_message.val)
              ELSE Ok(<<>>)
    IN  IF ~value.version.some THEN Err(MissingParameter("version"))
        ELSE IF ~version.ok THEN Err(BadParameter("version"))
        ELSE IF ~value.ciphersuite.some THEN Err(MissingParameter("version"))
        ELSE IF ~ciphersuite.ok THEN Err(BadParameter("version"))
        ELSE IF ~value.namespace.some THEN Err(MissingParameter("namespace"))
        ELSE IF ~value.timestamp.some THEN Err(MissingParameter("timestamp"))
        ELSE IF ~timestamp.ok THEN Err(BadParameter("timestamp"))
        ELSE IF ~value.epoch.some THEN Err(MissingParameter("epoch"))
        ELSE IF ~e.ok THEN Err(BadParameter("epoch"))
        ELSE IF ~value.digest.some THEN Err(MissingParameter("digest"))
        ELSE IF ~digest.ok THEN Err(BadParameter("digest"))
        ELSE IF ~value.signature.some THEN Err(MissingParameter("signature"))
        ELSE IF ~sig.ok THEN Err(BadParameter("signature"))
        ELSE IF ~key_id.ok THEN Err(BadParameter("key_id"))
        ELSE IF ~sm.ok THEN Err(BadParameter("serialized_message"))
        ELSE Ok([version |-> version.val, ciphersuite |-> ciphersuite.val,
                 namespace |-> value.namespace.val, timestamp |-> timestamp.val,
                 epoch |-> e.val, digest |-> digest.val, signature |-> sig.val,
                 key_id |-> IF value.key_id.some THEN Some(key_id.val) ELSE None,
                 serialized_message |-> IF value.serialized_message.some THEN Some(sm.val)
                                        ELSE None])

\* Report::try_from(map)
CoreReportTryFrom ==
    \E value \in ReportMaps :
        /\ Apply("Report::try_from", value, Report_try_from(value))
        /\ UNCHANGED <<signature, namespace_info>>

InitCore == InitOver([bincode |-> BOOLEAN])

NextCore ==
    \/ CoreVerify
    \/ CoreIsFirstEpoch
    \/ CoreToVec
    \/ CoreNew
    \/ CoreFromU32
    \/ CoreToU32
    \/ CoreDeserialize
    \/ CoreSerialize
    \/ CoreRoundTrip
    \/ CoreReportTryFrom

\* the functions of plexi_core, each called once on every input of the model
SpecCore == InitCore /\ [][NextCore]_vars

(***************************************************************************)
(* Properties                                                              *)
(***************************************************************************)
NumCalls(op) == Cardinality({i \in 1..Len(calls) : calls[i].op = op})

LastCall == calls[Len(calls)]

AuditDone == cmd = "audit" /\ pc = "done"

\* format_audit_response was called: the command produced its two statuses
ReportMade == signature_verification_status.some /\ proof_verification_status.some

\* audit made no call past the fetch of the namespace: no predecessor
\* signature, no proof, no oracle
NoPredecessorProofOracle ==
    /\ NumCalls("signature") <= 1
    /\ NumCalls("proof") = 0
    /\ NumCalls("verify_raw_proof") = 0
    /\ NumCalls("compute_start_root_hash") = 0
    /\ previous_signature = None
    /\ raw_proof = None

\* a root string of the form "<epoch>/<hex-digest>"
WellFormedRoot(r) ==
    LET parts == str_split(r, "/")
    IN  Len(parts) = 2 /\ parse_u64(parts[1]).ok /\ hex_decode(parts[2]).ok

RootEpoch(r) == parse_u64(str_split(r, "/")[1]).val
RootDigest(r) == hex_decode(str_split(r, "/")[2]).val

\* audit fetched a namespace that has a proof location
NamespaceWithLocation ==
    AuditDone /\ namespace_info.some /\ namespace_info.val.log_directory.some

\* audit fetched a namespace with a proof location and a well-formed root
NamespaceWithRoot ==
    /\ NamespaceWithLocation
    /\ namespace_info.val.root.some
    /\ WellFormedRoot(namespace_info.val.root.val)

RootMismatch == Failed("epoch is at root height but does not match root digest")

\* C1: in audit, with the signature verified, a proof location and a
\* well-formed root whose epoch is the target epoch, the proof status is
\* Success exactly when the target digest equals the root digest byte for
\* byte and Failed (root mismatch) otherwise, and no predecessor signature,
\* no proof and no oracle verdict was asked for.
C1_AtRoot ==
    /\ NamespaceWithRoot
    /\ signature.val.epoch = RootEpoch(namespace_info.val.root.val)

C1_RootEpochCompared ==
    C1_AtRoot =>
        /\ signature_verification_status = Some(Success)
        /\ proof_verification_status =
              Some(IF signature.val.digest = RootDigest(namespace_info.val.root.val)
                   THEN Success ELSE RootMismatch)
        /\ NoPredecessorProofOracle

\* the root is written in upper-case hex and the digests agree
C1_Witness ==
    /\ C1_AtRoot
    /\ str_split(namespace_info.val.root.val, "/")[2] = UpperHexA
    /\ proof_verification_status = Some(Success)

(***************************************************************************)
(* C2                                                                      *)
(***************************************************************************)
\* the key string the signature is verified with, when there is one
KeyTried ==
    IF verifying_key.some THEN verifying_key
    ELSE IF cmd # "audit" \/ ~config.some \/ ~signature.val.key_id.some THEN None
    ELSE LET keys == config.val
             matching == {i \in 1..Len(keys) :
                            LET d == hex_decode(keys[i])
                            IN  d.ok /\ Len(d.val) > 0 /\ d.val[Len(d.val)] = signature.val.key_id.val}
         IN  IF matching = {} THEN None
             ELSE Some(keys[CHOOSE i \in matching : \A j \in matching : i <= j])

\* the target signature is a valid signature, by the key tried, of the
\* encoding of its own fields under a ciphersuite the build supports
SignatureVerifies ==
    /\ KeyTried.some
    /\ hex_decode(KeyTried.val).ok
    /\ LET key == hex_decode(KeyTried.val).val
           r == signature.val
       IN  /\ Len(key) = PUBLIC_KEY_LENGTH
           /\ key # KOffCurve
           /\ r.version.variant = "ProtobufEd25519" \/ (r.version.variant = "BincodeEd25519" /\ bincode)
           /\ r.signature = Sig(SIGNATURE_LENGTH, key,
                                <<IF r.version.variant = "ProtobufEd25519" THEN "proto" ELSE "bincode",
                                  Ciphersuite_to_u32(r.ciphersuite), r.namespace, r.timestamp,
                                  r.epoch, r.digest>>)

\* verification was requested and the signature stage was reached
SignatureStageReached ==
    /\ pc = "done"
    /\ verify
    /\ signature.some
    /\ cmd = "audit" => config.some

NoFetchPastSignature ==
    /\ namespace_info = None
    /\ NumCalls("namespace") = 0
    /\ NoPredecessorProofOracle

Surfaced(s, p) ==
    IF p.tag = "Disabled" THEN s
    ELSE IF s.tag = "Failed" THEN s
    ELSE p

\* C3: the short-form report of format_audit_response shows the signature
\* status if the proof status is Disabled, otherwise the signature status if
\* it is Failed, otherwise the proof status.
C3_ShortReportPrecedence ==
    (cmd = "format_audit_response" /\ pc = "done" /\ ~long) =>
        /\ result.kind = "ok"
        /\ result.text = VerificationStatus_to_string(
                            Surfaced(signature_verification_status.val, proof_verification_status.val))

\* a failed signature is shown although the proof status is Success
C3_Witness ==
    /\ cmd = "format_audit_response" /\ pc = "done" /\ ~long
    /\ signature_verification_status.val.tag = "Failed"
    /\ proof_verification_status = Some(Success)
    /\ result.text = <<"failed - ", signature_verification_status.val.reason>>

(***************************************************************************)
(* C4, C5                                                                  *)
(***************************************************************************)
\* the last fetch failed in transport, or the proof file could not be opened
CollaboratorFailure ==
    \/ /\ calls # <<>>
       /\ LastCall.op \in {"last_verified_epoch", "signature", "auditor_config", "namespace", "proof"}
       /\ LastCall.answer = "error"
    \/ result = Error("cannot read input file")

\* the predecessor of an epoch above the root is not stored
MissingPredecessor ==
    /\ NumCalls("signature") = 2
    /\ LastCall.op = "signature"
    /\ LastCall.answer = "not_found"

\* C4: once verification is requested and the target signature obtained,
\* audit and audit_local end with a report for every verification failure;
\* the only abort is a missing predecessor.
C4_AlwaysReports ==
    (pc = "done" /\ verify /\ signature.some /\ ~CollaboratorFailure) =>
        (result.kind = "ok" \/ MissingPredecessor)

\* C5: in audit, a recorded root that is not a well-formed
\* "<epoch>/<hex-digest>" gives proof status Failed (invalid root) with
\* signature status Success, and the audit does not abort.
C5_MalformedRootReported ==
    (NamespaceWithLocation /\ namespace_info.val.root.some
        /\ ~WellFormedRoot(namespace_info.val.root.val)) =>
        /\ signature_verification_status = Some(Success)
        /\ proof_verification_status = Some(Failed("namespace has an invalid root"))
        /\ result.kind = "ok"

(***************************************************************************)
(* C6, C7, C8                                                              *)
(***************************************************************************)
\* C6: in audit, with the signature verified and a well-formed root, a
\* target epoch below the root epoch gives proof status Failed (epoch
\* before root) with signature status Success, and no predecessor, proof or
\* oracle call.
C6_BeforeRoot ==
    /\ NamespaceWithRoot
    /\ signature.val.epoch < RootEpoch(namespace_info.val.root.val)

C6_EpochBeforeRootFails ==
    C6_BeforeRoot =>
        /\ signature_verification_status = Some(Success)
        /\ proof_verification_status = Some(Failed("epoch cannot be before root"))
        /\ NoPredecessorProofOracle

\* the target epoch is the one just below the root epoch
C6_Witness ==
    /\ C6_BeforeRoot
    /\ signature.val.epoch + 1 = RootEpoch(namespace_info.val.root.val)
    /\ proof_verification_status = Some(Failed("epoch cannot be before root"))

\* C7: in audit, with the signature verified, a namespace without a proof
\* location gives proof status Disabled and signature status Success,
\* whether its root is absent, malformed or well formed.
C7_NoLocation == AuditDone /\ namespace_info.some /\ ~namespace_info.val.log_directory.some

C7_NoLocationDisables ==
    C7_NoLocation =>
        /\ signature_verification_status = Some(Success)
        /\ proof_verification_status = Some(Disabled)
        /\ NoPredecessorProofOracle

\* there is no proof location and the root is malformed
C7_Witness ==
    /\ C7_NoLocation
    /\ namespace_info.val.root.some
    /\ ~WellFormedRoot(namespace_info.val.root.val)
    /\ proof_verification_status = Some(Disabled)

\* C8: in audit, with the signature verified, a namespace with a proof
\* location and no recorded root gives proof status Failed (no root) with
\* signature status Success, for every namespace status.
C8_NoRoot == NamespaceWithLocation /\ ~namespace_info.val.root.some

C8_NoRootFails ==
    C8_NoRoot =>
        /\ signature_verification_status = Some(Success)
        /\ proof_verification_status = Some(Failed("namespace does not have a root"))
        /\ NoPredecessorProofOracle

\* the namespace without a root is in its Initialization phase
C8_Witness ==
    /\ C8_NoRoot
    /\ namespace_info.val.status = "Initialization"
    /\ proof_verification_status = Some(Failed("namespace does not have a root"))

(***************************************************************************)
(* C9, C10                                                                 *)
(***************************************************************************)
\* C9: in audit, when the target epoch is above the root epoch and the
\* predecessor's signature is not found, the audit aborts without a report;
\* and no other condition aborts the audit once the signature is verified.
C9_OnlyMissingPredecessorAborts ==
    /\ (AuditDone /\ MissingPredecessor) => (result.kind \in {"err", "panic"} /\ ~ReportMade)
    /\ (AuditDone /\ dots_handle # "none" /\ result.kind \in {"err", "panic"}
            /\ ~CollaboratorFailure) => MissingPredecessor

\* C10: in audit, when the target epoch is above the root epoch and the
\* fetch of the proof answers not-found, the proof status is Failed (proof
\* unavailable) with signature status Success, and the oracle is not invoked.
C10_ProofNotFound ==
    /\ AuditDone
    /\ calls # <<>>
    /\ LastCall.op = "proof"
    /\ LastCall.answer = "not_found"

C10_ProofUnavailableFails ==
    /\ C10_ProofNotFound =>
        /\ signature_verification_status = Some(Success)
        /\ proof_verification_status = Some(Failed("cannot retrieve audit proof"))
        /\ signature.val.epoch > root.val[1]
    /\ \A i \in 1..Len(calls) :
        (calls[i].op = "proof" /\ calls[i].answer = "not_found") =>
            /\ pc = "done"
            /\ i = Len(calls)
            /\ NumCalls("verify_raw_proof") = 0

\* the proof asked for is keyed by the target epoch and the two digests
C10_Witness ==
    /\ C10_ProofNotFound
    /\ LastCall.arg[1] = AuditBlobName(signature.val.epoch, previous_signature.val.digest,
                                       signature.val.digest)
    /\ proof_verification_status = Some(Failed("cannot retrieve audit proof"))

(***************************************************************************)
(* C11                                                                     *)
(***************************************************************************)
\* the oracle was invoked: verify_raw_proof is the last call of the run
OracleInvoked ==
    /\ pc = "done"
    /\ calls # <<>>
    /\ LastCall.op = "verify_raw_proof"

\* the verdict of the oracle on the arguments it was called with
OracleVerdict == verify_raw_proof(LastCall.arg[1], LastCall.arg[2])

\* C11: in audit and audit_local, when the oracle is invoked the proof
\* status of the report is Success if and only if the oracle answered ok, is
\* Failed with the oracle's reason when it answered with an error, and the
\* signature status is Success.
C11_OracleVerdictPropagated ==
    OracleInvoked =>
        /\ ReportMade
        /\ signature_verification_status = Some(Success)
        /\ proof_verification_status =
              Some(IF OracleVerdict.ok THEN Success ELSE Failed(OracleVerdict.err))
        /\ (proof_verification_status = Some(Success)) <=> (LastCall.answer = "ok")
        /\ LastCall.arg = <<blob.val, raw_proof.val>>

\* audit ran the oracle on a proof that parses and the oracle rejected it
C11_Witness ==
    /\ OracleInvoked
    /\ cmd = "audit"
    /\ raw_proof.val.kind = "proof"
    /\ proof_verification_status = Some(Failed("verifying raw proof"))

(***************************************************************************)
(* C12                                                                     *)
(***************************************************************************)
\* the last fetch of the verification stage of audit (the namespace, the
\* predecessor's signature, the proof) failed in transport
VerificationFetchFailed ==
    /\ AuditDone
    /\ dots_handle # "none"
    /\ calls # <<>>
    /\ LastCall.answer = "error"
    /\ \/ LastCall.op \in {"namespace", "proof"}
       \/ LastCall.op = "signature" /\ NumCalls("signature") = 2

\* C12: when a fetch made during verification (namespace, predecessor
\* signature, proof) fails in transport, audit returns a report whose proof
\* status is Failed, not an error.
C12_FetchFailureReported ==
    VerificationFetchFailed =>
        /\ result.kind = "ok"
        /\ ReportMade
        /\ signature_verification_status = Some(Success)
        /\ proof_verification_status.val.tag = "Failed"

(***************************************************************************)
(* C13, C14, C15                                                           *)
(***************************************************************************)
\* the function op was called
Called(op) == pc = "done" /\ cmd = op

TheCall == calls[1]

\* C13: SignatureResponse::verify answers with an error value and never
\* panics, whatever the lengths of the stored signature and of the key and
\* whatever the version and the ciphersuite.
C13_VerifyNeverPanics ==
    Called("verify") => TheCall.answer \in {"ok", "err"}

\* C14: NamespaceInfo::is_first_epoch answers true for a namespace without
\* a root exactly when its status is Initialization; true when the recorded
\* root is the observed one, for every status; false when the roots differ
\* and the status is not Initialization; the error InvalidRoot when the
\* roots differ and the status is Initialization; and it leaves the
\* namespace as it was.
C14_IsFirstEpochTable ==
    Called("is_first_epoch") =>
        LET info == TheCall.arg[1]
            observed == TheCall.arg[2]
            answer == TheCall.answer
        IN  /\ ~info.root.some => answer = Ok(info.status = "Initialization")
            /\ (info.root.some /\ info.root.val = observed) => answer = Ok(TRUE)
            /\ (info.root.some /\ info.root.val # observed /\ info.status # "Initialization")
                    => answer = Ok(FALSE)
            /\ (info.root.some /\ info.root.val # observed /\ info.status = "Initialization")
                    => answer = Err(InvalidRoot)
            /\ namespace_info = Some(info)

\* an Online namespace is asked about the root it records
C14_Witness ==
    /\ Called("is_first_epoch")
    /\ TheCall.arg[1].status = "Online"
    /\ TheCall.arg[1].root = Some(TheCall.arg[2])
    /\ TheCall.answer = Ok(TRUE)

\* the bytes a signer encodes the message of a response to
CanonicalEncoding(r) == SignatureMessage_to_vec(SignatureMessage_from(r), TRUE)

\* the stored signature is a signature by the secret key of `key` over the
\* canonical encoding of (ciphersuite, namespace, timestamp, epoch, digest)
ValidSignature(r, key) ==
    /\ CanonicalEncoding(r).ok
    /\ r.signature = Sig(SIGNATURE_LENGTH, key, CanonicalEncoding(r).val)

\* C15: SignatureResponse::verify(key) succeeds if and only if the stored
\* signature is a valid signature by the secret key of `key` over the
\* canonical encoding of (ciphersuite, namespace, timestamp, epoch, digest);
\* stated for the builds that can encode both ciphersuites.
C15_VerifyIffValid ==
    (Called("verify") /\ bincode) =>
        ((TheCall.answer = "ok") <=> ValidSignature(TheCall.arg[1], TheCall.arg[2]))

(***************************************************************************)
(* C16, C17, C18                                                           *)
(***************************************************************************)
\* C16: SignatureMessage::to_vec gives bytes only for the ciphersuites
\* ProtobufEd25519 and BincodeEd25519; for a message whose ciphersuite is
\* Unknown, however the message was obtained, it fails with the
\* Serialization error.
C16_ToVecKnownSuitesOnly ==
    Called("to_vec") =>
        LET m == TheCall.arg[2]
            answer == TheCall.answer
        IN  /\ answer.ok => m.ciphersuite \in {ProtobufEd25519, BincodeEd25519}
            /\ m.ciphersuite.variant = "Unknown" => answer = Err("Serialization")
            /\ m.ciphersuite = ProtobufEd25519 => answer.ok
            /\ (m.ciphersuite = BincodeEd25519 /\ bincode) => answer.ok

\* a message converted from a response whose ciphersuite is Unknown(1)
C16_Witness ==
    /\ Called("to_vec")
    /\ TheCall.arg[1] = "from"
    /\ TheCall.arg[2].ciphersuite = Unknown(1)
    /\ TheCall.answer = Err("Serialization")

\* C17: SignatureMessage::new succeeds exactly when the ciphersuite is
\* ProtobufEd25519 or BincodeEd25519, and for any other ciphersuite fails
\* with a BadParameter error naming the field ciphersuite.
C17_NewNamesCiphersuite ==
    Called("new") =>
        LET c == TheCall.arg[1]
            answer == TheCall.answer
        IN  /\ answer.ok <=> c \in {ProtobufEd25519, BincodeEd25519}
            /\ ~answer.ok => answer.err = BadParameter("ciphersuite")

\* C18: Ciphersuite::from(u32) maps 1 to ProtobufEd25519, 2 to
\* BincodeEd25519 and every other u to Unknown(u), so never to Unknown(1) or
\* Unknown(2); the code of from(u) is u; and from(code of c) is c for the
\* two known variants.
C18_CodeConversion ==
    /\ Called("Ciphersuite::from") =>
        LET u == TheCall.arg
            c == TheCall.answer
        IN  /\ c = (IF u = 1 THEN ProtobufEd25519 ELSE IF u = 2 THEN BincodeEd25519
                   ELSE Unknown(u))
            /\ Ciphersuite_to_u32(c) = u
            /\ c \notin {Unknown(1), Unknown(2)}
    /\ Called("u32::from") =>
        LET c == TheCall.arg
            u == TheCall.answer
        IN  /\ c = ProtobufEd25519 => u = 1
            /\ c = BincodeEd25519 => u = 2
            /\ c.variant = "Unknown" => u = c.code
            /\ c \in {ProtobufEd25519, BincodeEd25519} => Ciphersuite_from_u32(u) = c

\* the bincode code is converted
C18_Witness ==
    /\ Called("Ciphersuite::from")
    /\ TheCall.arg = 2
    /\ TheCall.answer = BincodeEd25519

(***************************************************************************)
(* C19, C20                                                                *)
(***************************************************************************)
\* the JSON record with the contents of the fields version and ciphersuite
\* exchanged
Renamed(json) == [json EXCEPT !.version = json.ciphersuite, !.ciphersuite = json.version]

\* the JSON record decodes but for its version and ciphersuite
HexFieldsDecode(json) ==
    /\ hex_decode(json.digest).ok
    /\ hex_decode(json.signature).ok
    /\ json.serialized_message.some => hex_decode(json.serialized_message.val).ok

\* C19: a JSON record carrying only version = c and the same record carrying
\* only ciphersuite = c deserialize to equal SignatureResponse values, whose
\* version and ciphersuite are both c; a record carrying neither is rejected.
C19_LegacyFieldInterchangeable ==
    Called("deserialize") =>
        LET json == TheCall.arg
            answer == TheCall.answer
        IN  /\ (~json.version.some /\ ~json.ciphersuite.some) => ~answer.ok
            /\ (json.version.some # json.ciphersuite.some) =>
                    /\ answer = deserialize_signature_response(Renamed(json))
                    /\ answer.ok <=> HexFieldsDecode(json)
                    /\ answer.ok =>
                        LET c == Ciphersuite_from_u32(
                                    IF json.version.some THEN json.version.val
                                    ELSE json.ciphersuite.val)
                        IN  answer.val.version = c /\ answer.val.ciphersuite = c

\* a record with the current field only is accepted
C19_Witness ==
    /\ Called("deserialize")
    /\ ~TheCall.arg.version.some
    /\ TheCall.arg.ciphersuite = Some(2)
    /\ TheCall.answer.ok
    /\ TheCall.answer.val.version = BincodeEd25519

\* C20 as stated: the serialized record contains the field ciphersuite and
\* does not contain the legacy field version.
C20_CurrentFieldOnly ==
    Called("serialize") =>
        /\ TheCall.answer.ciphersuite = Some(Ciphersuite_to_u32(TheCall.arg.ciphersuite))
        /\ ~TheCall.answer.version.some

\* C20 amended: the serialized record carries the code of the ciphersuite
\* of the response under both names, ciphersuite and version, whatever the
\* version of the response is.
C20_BothFieldsFromCiphersuite ==
    Called("serialize") =>
        /\ TheCall.answer.ciphersuite = Some(Ciphersuite_to_u32(TheCall.arg.ciphersuite))
        /\ TheCall.answer.version = Some(Ciphersuite_to_u32(TheCall.arg.ciphersuite))

\* a response whose version differs from its ciphersuite is serialized
C20_Witness ==
    /\ Called("serialize")
    /\ TheCall.arg.version = Unknown(3)
    /\ TheCall.arg.ciphersuite = ProtobufEd25519
    /\ TheCall.answer.version = Some(1)
    /\ TheCall.answer.ciphersuite = Some(1)

(***************************************************************************)
(* C21                                                                     *)
(***************************************************************************)
\* C21: deserializing the serialization of a SignatureResponse built with
\* SignatureResponse::new yields a value equal to it.
C21_SerdeRoundTrip ==
    Called("round_trip") => TheCall.answer = Ok(TheCall.arg)

(***************************************************************************)
(* C22                                                                     *)
(***************************************************************************)
\* audit_local ended, and its signature stage accepted the signature
LocalSignatureVerified ==
    /\ cmd = "audit_local"
    /\ pc = "done"
    /\ verify
    /\ signature.some
    /\ SignatureVerifies

\* the proof file gave bytes the identifier can be built from: the start
\* root hash is computed and the digest of the signature has DIGEST_BYTES bytes
LocalIdentifierExists ==
    /\ raw_proof.some
    /\ compute_start_root_hash(raw_proof.val).ok
    /\ Len(signature.val.digest) = DIGEST_BYTES

\* no call but those of the two functions of the oracle, and nothing of the
\* namespace, of a predecessor or of a trust anchor in the state
NoRemoteEvidence ==
    /\ \A i \in 1..Len(calls) : calls[i].op \in {"compute_start_root_hash", "verify_raw_proof"}
    /\ namespace_info = None
    /\ root = None
    /\ previous_signature = None
    /\ config = None

\* C22: in audit_local, after the signature verified: without a proof path
\* the proof status is Disabled and nothing is called; with a proof path no
\* namespace, predecessor or remote proof is fetched and no root is
\* compared, the oracle is invoked at most once, and when the proof bytes
\* were read and give a start root hash the blob identifier is (epoch of
\* the signature, compute_start_root_hash(raw proof), digest of the
\* signature) and the oracle is invoked exactly once, with it and the
\* proof bytes.
C22_LocalIdentifierFromProof ==
    LocalSignatureVerified =>
        /\ NoRemoteEvidence
        /\ NumCalls("verify_raw_proof") <= 1
        /\ ~proof_path.some =>
                /\ signature_verification_status = Some(Success)
                /\ proof_verification_status = Some(Disabled)
                /\ calls = <<>>
        /\ (proof_path.some /\ LocalIdentifierExists) =>
                /\ blob = Some(AuditBlobName(signature.val.epoch,
                                             compute_start_root_hash(raw_proof.val).val,
                                             signature.val.digest))
                /\ NumCalls("verify_raw_proof") = 1
                /\ LastCall.op = "verify_raw_proof"
                /\ LastCall.arg = <<blob.val, raw_proof.val>>
                /\ ReportMade
        /\ (proof_path.some /\ ~LocalIdentifierExists) =>
                /\ NumCalls("verify_raw_proof") = 0
                /\ blob = None

\* the oracle was given an identifier whose two hashes differ
C22_Witness ==
    /\ LocalSignatureVerified
    /\ proof_path.some
    /\ LocalIdentifierExists
    /\ blob.some
    /\ blob.val.previous_hash = DB
    /\ blob.val.current_hash = DA
    /\ LastCall.op = "verify_raw_proof"
    /\ proof_verification_status = Some(Success)

(***************************************************************************)
(* C23                                                                     *)
(***************************************************************************)
\* the calls made with operation op, in order
RECURSIVE CallsOf(_, _)
CallsOf(op, cs) ==
    IF cs = <<>> THEN <<>>
    ELSE IF Head(cs).op = op THEN <<Head(cs)>> \o CallsOf(op, Tail(cs))
    ELSE CallsOf(op, Tail(cs))

\* audit ended past the root checks: the target epoch is above the epoch
\* of a well-formed root
AboveRoot ==
    /\ NamespaceWithRoot
    /\ signature.val.epoch > RootEpoch(namespace_info.val.root.val)

\* the identifier (E, digest of epoch E-1, digest of epoch E)
StepIdentifier ==
    AuditBlobName(signature.val.epoch, previous_signature.val.digest, signature.val.digest)

BothFieldsDiffer ==
    /\ Called("deserialize")
    /\ TheCall.arg.version.some
    /\ TheCall.arg.ciphersuite.some
    /\ TheCall.arg.version # TheCall.arg.ciphersuite
    /\ HexFieldsDecode(TheCall.arg)

\* C24 as stated: when a record carries both version and ciphersuite with
\* different values, the value deserialized takes the value of the current
\* field, ciphersuite, for both version and ciphersuite.
C24_CurrentFieldWins ==
    BothFieldsDiffer =>
        /\ TheCall.answer.ok
        /\ TheCall.answer.val.version = Ciphersuite_from_u32(TheCall.arg.ciphersuite.val)
        /\ TheCall.answer.val.ciphersuite = Ciphersuite_from_u32(TheCall.arg.ciphersuite.val)

\* C24 amended: when a record carries both version and ciphersuite with
\* different values, the value deserialized takes the value of the legacy
\* field, version, for both version and ciphersuite.
C24_LegacyFieldWins ==
    BothFieldsDiffer =>
        /\ TheCall.answer.ok
        /\ TheCall.answer.val.version = Ciphersuite_from_u32(TheCall.arg.version.val)
        /\ TheCall.answer.val.ciphersuite = Ciphersuite_from_u32(TheCall.arg.version.val)

\* version 1 and ciphersuite 2 give ProtobufEd25519
C24_Witness ==
    /\ BothFieldsDiffer
    /\ TheCall.arg.version = Some(1)
    /\ TheCall.arg.ciphersuite = Some(2)
    /\ TheCall.answer.ok
    /\ TheCall.answer.val.ciphersuite = ProtobufEd25519

(***************************************************************************)
(* C25                                                                     *)
(***************************************************************************)
\* audit reached the choice of the verifying key
KeyStageReached == AuditDone /\ SignatureStageReached

\* the registered key k has key id id: the last byte of its public key
HasKeyId(k, id) ==
    LET d == hex_decode(k)
    IN  d.ok /\ Len(d.val) > 0 /\ d.val[Len(d.val)] = id

\* some registered key has the key id of the response
SomeKeyMatches ==
    /\ signature.val.key_id.some
    /\ \E i \in 1..Len(config.val) : HasKeyId(config.val[i], signature.val.key_id.val)

SignatureStagePanicked == result = Panic("signature stage")

\* C25: in audit without a supplied verifying key, the signature is
\* verified with the first registered key, in the configuration's order,
\* whose key id equals the key_id of the response, and with no other; when
\* the response has no key_id or no registered key has it, the signature
\* status is Failed and the proof status Disabled.  With a supplied key the
\* signature is verified with it, whatever the key_id and the registered
\* keys are.
C25_KeySelection ==
    KeyStageReached =>
        /\ (~verifying_key.some /\ ~SomeKeyMatches) =>
                /\ ReportMade
                /\ signature_verification_status.val.tag = "Failed"
                /\ proof_verification_status = Some(Disabled)
        /\ (verifying_key.some \/ SomeKeyMatches) =>
                /\ KeyTried.some
                /\ SignatureVerifies =>
                        /\ ~SignatureStagePanicked
                        /\ ReportMade => signature_verification_status = Some(Success)
                /\ ~SignatureVerifies =>
                        /\ NoFetchPastSignature
                        /\ ReportMade =>
                            /\ signature_verification_status.val.tag = "Failed"
                            /\ proof_verification_status = Some(Disabled)

(***************************************************************************)
(* C26                                                                     *)
(***************************************************************************)
\* audit or audit_local ended a run that was called with verify = false
UnverifiedRunDone == cmd \in {"audit", "audit_local"} /\ pc = "done" /\ ~verify

\* C26: with verify = false, audit and audit_local make no call but those
\* that obtain the target signature (the last verified epoch and the
\* signature itself, once), fetch no auditor configuration, namespace,
\* predecessor or proof, and ask no oracle; once the signature is obtained
\* they return a report, and its signature status and proof status are
\* both Disabled.
C26_NoVerifyDisablesBoth ==
    UnverifiedRunDone =>
        /\ \A i \in 1..Len(calls) : calls[i].op \in {"last_verified_epoch", "signature"}
        /\ NumCalls("signature") <= 1
        /\ NumCalls("last_verified_epoch") <= 1
        /\ config = None
        /\ NoFetchPastSignature
        /\ blob = None
        /\ dots_handle = "none"
        /\ signature.some =>
                /\ signature_verification_status = Some(Disabled)
                /\ proof_verification_status = Some(Disabled)
                /\ result.kind = "ok"

(***************************************************************************)
(* C27                                                                     *)
(***************************************************************************)
RequiredKeys ==
    {"version", "ciphersuite", "namespace", "timestamp", "epoch", "digest", "signature"}

\* the entry of key k is present and the conversion cannot use it
Unparsable(value, k) ==
    /\ value[k].some
    /\ value[k].val = OtherValues[k]
    /\ k # "namespace"

\* key k is at fault in the map: required and absent, or present and unparsable
AtFault(value, k) == (k \in RequiredKeys /\ ~value[k].some) \/ Unparsable(value, k)

\* C27: Report::try_from fails with MissingParameter(k) when the required
\* key k is absent and with BadParameter(k) when the value of k is present
\* and does not parse, k being the first such key in the order the fields
\* are read; the absence of key_id and of serialized_message is no error,
\* and a map without such a key converts.
C27_TryFromNamesKey ==
    Called("Report::try_from") =>
        LET value == TheCall.arg
            faults == {i \in 1..Len(ReportKeys) : AtFault(value, ReportKeys[i])}
        IN  IF faults = {} THEN TheCall.answer.ok
            ELSE LET k == ReportKeys[CHOOSE i \in faults : \A j \in faults : i <= j]
                 IN  TheCall.answer =
                        Err(IF value[k].some THEN BadParameter(k) ELSE MissingParameter(k))

(***************************************************************************)
(* C28                                                                     *)
(***************************************************************************)
\* audit or audit_local returned: a report or an error, not a panic
Returned ==
    /\ cmd \in {"audit", "audit_local"}
    /\ pc = "done"
    /\ result.kind \in {"ok", "err"}

\* C28: when audit or audit_local returns, the task spawned by print_dots,
\* if it was spawned, has been aborted: no return leaves it running.
C28_DotsAbortedOnReturn ==
    Returned => dots_handle # "running"

(***************************************************************************)
(* C29                                                                     *)
(***************************************************************************)
\* audit ended without a report and without any call beyond cs
EndedWithout(kind) == result.kind = kind /\ ~ReportMade

\* audit reported the statuses (Success, p)
Reported(p) ==
    /\ signature_verification_status = Some(Success)
    /\ proof_verification_status = Some(p)
    /\ result = format_audit_response(long, signature.val, Success, p)

\* C29: in audit, when the target epoch E is above the epoch of a
\* well-formed root, the calls made after the namespace fetch, their
\* arguments and the statuses reported are determined by the target
\* signature, the answers of the collaborators (predecessor, proof,
\* oracle) and the proof location alone; the digest part of the root
\* enters none of them, so two runs that differ only in it make the same
\* calls and report the same statuses.
C29_RootDigestUnused ==
    AboveRoot =>
        LET E == signature.val.epoch
            fetched == CallsOf("signature", calls)
            proofs == CallsOf("proof", calls)
            verdicts == CallsOf("verify_raw_proof", calls)
        IN  /\ Len(fetched) = 2
            /\ fetched[2].arg = E - 1
            /\ CASE fetched[2].answer = "error" ->
                        EndedWithout("err") /\ proofs = <<>> /\ verdicts = <<>>
                 [] fetched[2].answer = "not_found" ->
                        EndedWithout("panic") /\ proofs = <<>> /\ verdicts = <<>>
                 [] Len(signature.val.digest) # DIGEST_BYTES
                        \/ Len(previous_signature.val.digest) # DIGEST_BYTES ->
                        Reported(Failed("digest length invalid")) /\ proofs = <<>> /\ verdicts = <<>>
                 [] OTHER ->
                        /\ Len(proofs) = 1
                        /\ proofs[1].arg = <<StepIdentifier, namespace_info.val.log_directory.val>>
                        /\ CASE proofs[1].answer = "error" ->
                                    EndedWithout("err") /\ verdicts = <<>>
                             [] proofs[1].answer = "not_found" ->
                                    Reported(Failed("cannot retrieve audit proof")) /\ verdicts = <<>>
                             [] OTHER ->
                                    /\ Len(verdicts) = 1
                                    /\ verdicts[1].arg = <<StepIdentifier, raw_proof.val>>
                                    /\ IF verdicts[1].answer = "ok" THEN Reported(Success)
                                       ELSE /\ ReportMade
                                            /\ Reported(proof_verification_status.val)
                                            /\ proof_verification_status.val.tag = "Failed"

\* the root digest differs from the digests of epochs E-1 and E, and the
\* proof is verified
C29_Witness ==
    /\ AboveRoot
    /\ RootDigest(namespace_info.val.root.val) = DB
    /\ signature.val.digest = DA
    /\ previous_signature.some
    /\ previous_signature.val.digest = DA
    /\ proof_verification_status = Some(Success)

(***************************************************************************)
(* C30                                                                     *)
(***************************************************************************)
\* audit is about to compute the predecessor epoch, or has asked for the
\* predecessor signature
PredecessorComputed ==
    /\ cmd = "audit"
    /\ pc = "a_previous_signature" \/ NumCalls("signature") = 2

\* C30: in audit the predecessor epoch E-1 is computed only where E is
\* strictly greater than the parsed root epoch, so E >= 1 there and the
\* subtraction does not underflow, for every target epoch and every root
\* epoch, 0 included; the epoch asked for is E-1.
C30_PredecessorNoUnderflow ==
    /\ result # Panic("attempt to subtract with overflow")
    /\ PredecessorComputed =>
            /\ root.some
            /\ signature.val.epoch > root.val[1]
            /\ signature.val.epoch >= 1
            /\ Epoch_sub(signature.val.epoch, 1).ok
            /\ NumCalls("signature") = 2 =>
                    /\ CallsOf("signature", calls)[2].arg = signature.val.epoch - 1
                    /\ CallsOf("signature", calls)[2].arg >= 0

\* the predecessor of epoch 1 over a root at epoch 0 was asked for: epoch 0
C30_Witness ==
    /\ PredecessorComputed
    /\ signature.val.epoch = 1
    /\ root.val[1] = 0
    /\ NumCalls("signature") = 2
    /\ CallsOf("signature", calls)[2].arg = 0

====
